---------------------------- MODULE Spec2Model ----------------------------
(***************************************************************************)
(* Model of pgdump_toc_edit: the toc.dat codec (toc_reader.rs,             *)
(* toc_writer.rs, toc_string.rs, toc_datetime.rs, toc_header.rs,           *)
(* toc_entry.rs), the header copy of lib.rs, the SQL rewriter              *)
(* (rewrite_sql.rs), the reordering of the catalog entries, the rename of  *)
(* the TOC entries (lib.rs) and the rewrite of the catalog files           *)
(* (rewrite_catalog.rs, rewrite_table of lib.rs).                          *)
(*                                                                         *)
(* Bytes are naturals 0..255, byte strings are sequences of bytes, text is *)
(* a sequence of characters.  i32 values are kept in their 32-bit range.   *)
(* A reader is [buf, err, wrapped]: the bytes not yet consumed, the error  *)
(* that ended it ("" when none) and whether an i32 operation wrapped.  A   *)
(* writer is [buf, err, wrapped]: the bytes emitted so far.  Every         *)
(* operation on a reader or writer that already holds an error leaves it   *)
(* alone, which is what the `?` after each call does in the source.        *)
(***************************************************************************)
EXTENDS Integers, Sequences, FiniteSets, TLC

VARIABLES
    overflow_checks, \* build profile: TRUE = overflow checks on (debug, test)
    pc,              \* position of the driver of the scenario
    reader,          \* the TocReader / reader of lib.rs
    writer,          \* the TocWriter / writer of lib.rs
    sent,            \* primitive pipe: values written so far
    recv,            \* primitive pipe: values read back so far
    file,            \* the bytes of the input toc.dat
    header,          \* TocHeader read from the file
    entries,         \* TocEntry list read from the file
    json,            \* the JSON projection of header and entries
    sql,             \* SQL text handed to the rewriter
    schemas,         \* the schemas map handed to the rewriter
    tokens,          \* what the tokenizer returned for sql
    result,          \* what the rewriter returned
    ctx,             \* the TocCtx of a rename
    toc_in,          \* the entries as they were read
    toc,             \* the entries a rename works on
    ret,             \* what the rename operation returned
    fs,              \* the files of the dump directory: name -> content
    job              \* the file rewrite in progress

vars == <<overflow_checks, pc, reader, writer, sent, recv, file, header,
          entries, json, sql, schemas, tokens, result, ctx, toc_in, toc, ret, fs, job>>

primVars == <<sent, recv>>
tocVars == <<file, header, entries, json>>
sqlVars == <<sql, schemas, tokens, result>>
renVars == <<ctx, toc_in, toc, ret>>
fsVars == <<fs, job>>

(***************************************************************************)
(* i32                                                                     *)
(***************************************************************************)
I32Max == 2147483647
I32Min == (-2147483647) - 1

NegOverflow == "panic: attempt to negate with overflow"
AddOverflow == "panic: attempt to add with overflow"
UnexpectedEof == "failed to fill whole buffer"

\* u32::to_le_bytes for a value below 2^31
to_le_bytes(u) ==
    << u % 256, (u \div 256) % 256, (u \div 65536) % 256, u \div 16777216 >>

NewReader(bytes) == [buf |-> bytes, err |-> "", wrapped |-> FALSE]
NewWriter == [buf |-> << >>, err |-> "", wrapped |-> FALSE]

Failed(x) == x.err # ""

(***************************************************************************)
(* TocWriter (toc_writer.rs)                                               *)
(***************************************************************************)
write_all(w, bytes) ==
    IF Failed(w) THEN w ELSE [w EXCEPT !.buf = @ \o bytes]

\* mutant: two's complement instead of sign and magnitude for -1
TocWriter_write_int_twos(w, val) ==
    IF Failed(w) THEN w
    ELSE IF val >= 0 THEN write_all(w, <<0>> \o to_le_bytes(val))
    ELSE IF val = -1 THEN write_all(w, <<1, 255, 255, 255, 255>>)
    ELSE IF val = I32Min THEN write_all(w, <<1, 0, 0, 0, 128>>)
    ELSE write_all(w, <<1>> \o to_le_bytes(-val))

\* -val is evaluated in i32: for i32::MIN it panics under overflow checks and
\* wraps to i32::MIN otherwise, which `as u32` turns into 0x80000000.
TocWriter_write_int(w, val) ==
    IF Failed(w) THEN w
    ELSE IF val >= 0 THEN write_all(w, <<0>> \o to_le_bytes(val))
    ELSE IF val = I32Min
         THEN IF overflow_checks
              THEN [w EXCEPT !.err = NegOverflow]
              ELSE write_all([w EXCEPT !.wrapped = TRUE], <<1, 0, 0, 0, 128>>)
    ELSE write_all(w, <<1>> \o to_le_bytes(-val))

(***************************************************************************)
(* TocString (toc_string.rs)                                               *)
(***************************************************************************)
TocString_none == [some |-> FALSE, bytes |-> << >>]
TocString_empty == [some |-> TRUE, bytes |-> << >>]
TocString_new(buf) == [some |-> TRUE, bytes |-> buf]

\* mutant: an empty string is written like an absent one
TocWriter_write_string_noempty(w, ts) ==
    IF ts.some /\ Len(ts.bytes) > 0
    THEN write_all(TocWriter_write_int(w, Len(ts.bytes)), ts.bytes)
    ELSE TocWriter_write_int(w, -1)

TocWriter_write_string(w, ts) ==
    IF ts.some
    THEN write_all(TocWriter_write_int(w, Len(ts.bytes)), ts.bytes)
    ELSE TocWriter_write_int(w, -1)

(***************************************************************************)
(* TocReader (toc_reader.rs).  A read returns [r |-> reader, v |-> value]. *)
(***************************************************************************)
read_exact(r, n) ==
    IF Failed(r) THEN [r |-> r, v |-> << >>]
    ELSE IF Len(r.buf) < n
         THEN [r |-> [r EXCEPT !.err = UnexpectedEof], v |-> << >>]
    ELSE [r |-> [r EXCEPT !.buf = SubSeq(@, n + 1, Len(@))],
          v |-> SubSeq(r.buf, 1, n)]

\* res is the u32 sum of the four bytes shifted by 0, 8, 16, 24 (no carry);
\* `res as i32` reinterprets it
res_as_i32(buf) ==
    LET low == buf[2] + buf[3] * 256 + buf[4] * 65536 + (buf[5] % 128) * 16777216
    IN  IF buf[5] >= 128 THEN (low - I32Max) - 1 ELSE low

\* Ok(-res_signed) when buf[0] > 0, else Ok(res_signed); -res_signed panics
\* or wraps for i32::MIN
signed_result(r, sign, res_signed) ==
    IF sign > 0
    THEN IF res_signed = I32Min
         THEN IF overflow_checks
              THEN [r |-> [r EXCEPT !.err = NegOverflow], v |-> 0]
              ELSE [r |-> [r EXCEPT !.wrapped = TRUE], v |-> I32Min]
         ELSE [r |-> r, v |-> -res_signed]
    ELSE [r |-> r, v |-> res_signed]

\* what read_int makes of the five bytes x.v taken by read_exact
int_of_buf(x) ==
    IF Failed(x.r) THEN [r |-> x.r, v |-> 0]
    ELSE signed_result(x.r, x.v[1], res_as_i32(x.v))

TocReader_read_int(r) == int_of_buf(read_exact(r, 5))

\* TocString::new(buf) of the bytes x.v taken by read_exact
string_of_buf(x) ==
    IF Failed(x.r) THEN [r |-> x.r, v |-> TocString_none]
    ELSE [r |-> x.r, v |-> TocString_new(x.v)]

\* what read_string makes of the length len.v read by read_int
string_of_len(len) ==
    IF Failed(len.r) THEN [r |-> len.r, v |-> TocString_none]
    ELSE IF len.v < 0 THEN [r |-> len.r, v |-> TocString_none]
    ELSE IF 0 = len.v THEN [r |-> len.r, v |-> TocString_empty]
    ELSE string_of_buf(read_exact(len.r, len.v))

TocReader_read_string(r) == string_of_len(TocReader_read_int(r))


(***************************************************************************)
(* Values that stand for "not used in this scenario".                      *)
(***************************************************************************)
NoHeader == [magic |-> << >>]
NoJson == [ok |-> FALSE, err |-> "none"]
NoResult == [ok |-> FALSE, err |-> "none", sql |-> << >>]

IdleToc ==
    /\ file = << >> /\ header = NoHeader /\ entries = << >> /\ json = NoJson
IdleSql ==
    /\ sql = << >> /\ schemas = << >> /\ tokens = << >> /\ result = NoResult
IdlePrim ==
    /\ sent = << >> /\ recv = << >>
IdleRen ==
    /\ ctx = << >> /\ toc_in = << >> /\ toc = << >> /\ ret = "none"
IdleFs ==
    /\ fs = << >> /\ job = << >>

(***************************************************************************)
(* Scenario 1: the integer and string codec used as a pipe.  Values are    *)
(* written with write_int / write_string and read back, in order, with     *)
(* read_int / read_string from the bytes the writer emitted.               *)
(***************************************************************************)
MaxOps == 3

IntSamples == {0, 1, -1, 16909060, -16909060, I32Max, I32Min}
StrSamples == { TocString_none, TocString_empty, TocString_new(<<97, 98>>),
                TocString_new(<<0>>), TocString_new(<<255, 0>>) }

\* the bytes w2 holds beyond those of w1
Emitted(w1, w2) == SubSeq(w2.buf, Len(w1.buf) + 1, Len(w2.buf))

PipeAlive == ~Failed(writer) /\ ~Failed(reader)

InitPrim ==
    /\ overflow_checks \in BOOLEAN
    /\ pc = "prim"
    /\ reader = NewReader(<< >>)
    /\ writer = NewWriter
    /\ IdlePrim /\ IdleToc /\ IdleSql /\ IdleRen /\ IdleFs

PrimWriteInt(i) ==
    /\ pc = "prim" /\ PipeAlive /\ Len(sent) < MaxOps
    /\ LET w == TocWriter_write_int(writer, i)
       IN  /\ writer' = w
           /\ reader' = [reader EXCEPT !.buf = @ \o Emitted(writer, w)]
           /\ sent' = Append(sent, [kind |-> "int", v |-> i,
                                    bytes |-> Emitted(writer, w)])
    /\ UNCHANGED <<overflow_checks, pc, recv, tocVars, sqlVars, renVars, fsVars>>

PrimWriteString(ts) ==
    /\ pc = "prim" /\ PipeAlive /\ Len(sent) < MaxOps
    /\ LET w == TocWriter_write_string(writer, ts)
       IN  /\ writer' = w
           /\ reader' = [reader EXCEPT !.buf = @ \o Emitted(writer, w)]
           /\ sent' = Append(sent, [kind |-> "str", v |-> ts,
                                    bytes |-> Emitted(writer, w)])
    /\ UNCHANGED <<overflow_checks, pc, recv, tocVars, sqlVars, renVars, fsVars>>

PrimReadInt ==
    /\ pc = "prim" /\ PipeAlive /\ Len(recv) < Len(sent)
    /\ sent[Len(recv) + 1].kind = "int"
    /\ LET x == TocReader_read_int(reader)
       IN  /\ reader' = x.r
           /\ recv' = IF Failed(x.r) THEN recv
                      ELSE Append(recv, [kind |-> "int", v |-> x.v])
    /\ UNCHANGED <<overflow_checks, pc, writer, sent, tocVars, sqlVars, renVars, fsVars>>

PrimReadString ==
    /\ pc = "prim" /\ PipeAlive /\ Len(recv) < Len(sent)
    /\ sent[Len(recv) + 1].kind = "str"
    /\ LET x == TocReader_read_string(reader)
       IN  /\ reader' = x.r
           /\ recv' = IF Failed(x.r) THEN recv
                      ELSE Append(recv, [kind |-> "str", v |-> x.v])
    /\ UNCHANGED <<overflow_checks, pc, writer, sent, tocVars, sqlVars, renVars, fsVars>>

NextPrim ==
    \/ \E i \in IntSamples : PrimWriteInt(i)
    \/ \E ts \in StrSamples : PrimWriteString(ts)
    \/ PrimReadInt
    \/ PrimReadString

SpecPrim == InitPrim /\ [][NextPrim]_vars


(***************************************************************************)
(* Claims about the primitive codec (checked under SpecPrim)               *)
(***************************************************************************)
\* the magnitude of an i32 as four little-endian bytes
AbsLe(v) ==
    IF v = I32Min THEN <<0, 0, 0, 128>>
    ELSE IF v < 0 THEN to_le_bytes(-v) ELSE to_le_bytes(v)

\* the strings written so far are exactly those of seq, in order
SentStrings(seq) ==
    /\ Len(sent) = Len(seq)
    /\ \A k \in 1..Len(sent) : sent[k].kind = "str" /\ sent[k].v = seq[k]

\* C3: for every i32 i, including -2147483648, write_int(i) emits exactly 5
\* bytes (sign byte, then |i| as 4 little-endian bytes) and read_int on them
\* returns i, with no error and no overflow in either direction.
C3_IntRoundTrip ==
    pc = "prim" =>
        /\ ~Failed(writer) /\ ~Failed(reader)
        /\ ~writer.wrapped /\ ~reader.wrapped
        /\ \A k \in 1..Len(sent) : sent[k].kind = "int" =>
               sent[k].bytes = <<IF sent[k].v < 0 THEN 1 ELSE 0>> \o AbsLe(sent[k].v)
        /\ \A k \in 1..Len(recv) : recv[k].kind = "int" => recv[k].v = sent[k].v

\* What does hold: every i32 above i32::MIN round-trips with no error and no
\* overflow (the integers of a run that never handled i32::MIN).
C3_AboveMin ==
    (pc = "prim" /\ \A k \in 1..Len(sent) :
                        sent[k].kind = "int" => sent[k].v # I32Min) =>
        /\ ~Failed(writer) /\ ~Failed(reader)
        /\ ~writer.wrapped /\ ~reader.wrapped
        /\ \A k \in 1..Len(sent) : sent[k].kind = "int" =>
               sent[k].bytes = <<IF sent[k].v < 0 THEN 1 ELSE 0>> \o AbsLe(sent[k].v)
        /\ \A k \in 1..Len(recv) : recv[k].kind = "int" => recv[k].v = sent[k].v

\* C4: the three states of a TocString are distinct on the wire (length
\* prefix -1 for absent, 0 for empty, the length for a present value) and
\* read_string returns the state and bytes that write_string was given,
\* whatever the bytes are.
C4_StringStates ==
    pc = "prim" =>
        /\ \A k \in 1..Len(recv) : recv[k].kind = "str" => recv[k].v = sent[k].v
        /\ \A k \in 1..Len(sent) : sent[k].kind = "str" =>
               /\ Len(sent[k].bytes) >= 5
               /\ TocReader_read_int(NewReader(sent[k].bytes)).v
                      = (IF sent[k].v.some THEN Len(sent[k].v.bytes) ELSE -1)
        /\ \A j, k \in 1..Len(sent) :
               (sent[j].kind = "str" /\ sent[k].kind = "str"
                   /\ sent[j].bytes = sent[k].bytes) => sent[j].v = sent[k].v

C4_Witness ==
    /\ pc = "prim"
    /\ Len(recv) = 3
    /\ \A k \in 1..3 : recv[k].kind = "str"
    /\ recv[1].v = TocString_none
    /\ recv[2].v = TocString_empty
    /\ recv[3].v = TocString_new(<<255, 0>>)

S2_Strings == << TocString_none, TocString_empty, TocString_new(<<97, 98>>) >>

\* C5 as stated: absent, empty, "ab" written with write_string give the 17
\* bytes 01 FF FF FF FF 00 00 00 00 00 00 02 00 00 00 61 62.
C5_SpecBytes ==
    (pc = "prim" /\ SentStrings(S2_Strings)) =>
        writer.buf = <<1, 255, 255, 255, 255, 0, 0, 0, 0, 0, 0, 2, 0, 0, 0, 97, 98>>

\* C5 amended: absent, empty, "ab" written with write_string give the 17
\* bytes 01 01 00 00 00 00 00 00 00 00 00 02 00 00 00 61 62: the length -1
\* of an absent string is sign byte 1 and magnitude 1.
C5_CodeBytes ==
    (pc = "prim" /\ SentStrings(S2_Strings)) =>
        /\ ~Failed(writer)
        /\ writer.buf = <<1, 1, 0, 0, 0, 0, 0, 0, 0, 0, 0, 2, 0, 0, 0, 97, 98>>

C5_Witness ==
    pc = "prim" /\ SentStrings(S2_Strings) /\ Len(writer.buf) = 17


(***************************************************************************)
(* TocReader: header and entry (toc_reader.rs)                             *)
(***************************************************************************)
PGDMP == <<80, 71, 68, 77, 80>>

Fail(x, msg) == [x EXCEPT !.r.err = msg]

magic_checked(x) ==
    IF Failed(x.r) THEN x
    ELSE IF PGDMP # x.v THEN Fail(x, "Magic check failure")
    ELSE x

TocReader_read_magic(r) == magic_checked(read_exact(r, 5))

version_checked(x) ==
    IF Failed(x.r) THEN x
    ELSE IF 1 # x.v[1] \/ 14 # x.v[2] THEN Fail(x, "Version check failure")
    ELSE x

TocReader_read_version(r) == version_checked(read_exact(r, 3))

flags_checked(x) ==
    IF Failed(x.r) THEN x
    ELSE IF 4 # x.v[1] THEN Fail(x, "Int size check failed")
    ELSE IF 8 # x.v[2] THEN Fail(x, "Offset check failed")
    ELSE IF 3 # x.v[3] THEN Fail(x, "Format check failed")
    ELSE x

TocReader_read_flags(r) == flags_checked(read_exact(r, 3))

TocDateTime_new(second, minute, hour, day, month, year, is_dst) ==
    [second |-> second, minute |-> minute, hour |-> hour, day |-> day,
     month |-> month, year |-> year, is_dst |-> is_dst]

\* n calls of read_int, each followed by "?"
RECURSIVE read_ints(_, _, _)
read_ints(r, n, vals) ==
    IF Failed(r) \/ n = 0 THEN [r |-> r, v |-> vals]
    ELSE read_ints(TocReader_read_int(r).r, n - 1,
                   Append(vals, TocReader_read_int(r).v))

\* second, minute, hour, day, month, year and is_dst are read in this order
DateTimeOf(x) ==
    [r |-> x.r,
     v |-> IF Failed(x.r) THEN TocDateTime_new(0, 0, 0, 0, 0, 0, 0)
           ELSE TocDateTime_new(x.v[1], x.v[2], x.v[3], x.v[4], x.v[5], x.v[6], x.v[7])]

TocReader_read_datetime(r) == DateTimeOf(read_ints(r, 7, << >>))

\* the loop that reads deps until an absent string
RECURSIVE read_deps(_, _)
read_deps(r, deps) ==
    IF Failed(TocReader_read_string(r).r) \/ ~TocReader_read_string(r).v.some
    THEN [r |-> TocReader_read_string(r).r, v |-> deps]
    ELSE read_deps(TocReader_read_string(r).r,
                   Append(deps, TocReader_read_string(r).v))

\* the fields of a TocHeader in the order read_header reads them and
\* write_header writes them, each with the call that handles it
HeaderFields ==
    << <<"magic", "magic">>, <<"version", "version">>, <<"flags", "flags">>,
       <<"compression", "int">>, <<"timestamp", "datetime">>,
       <<"postgres_dbname", "string">>, <<"version_server", "string">>,
       <<"version_pgdump", "string">>, <<"toc_count", "int">> >>

\* the fields of a TocEntry in the order read_entry reads them and
\* write_toc_entry writes them, each with the call that handles it
EntryFields ==
    << <<"dump_id", "int">>, <<"had_dumper", "int">>, <<"table_oid", "string">>,
       <<"catalog_oid", "string">>, <<"tag", "string">>,
       <<"description", "string">>, <<"section", "int">>,
       <<"create_stmt", "string">>, <<"drop_stmt", "string">>,
       <<"copy_stmt", "string">>, <<"namespace", "string">>,
       <<"tablespace", "string">>, <<"tableam", "string">>,
       <<"owner", "string">>, <<"table_with_oids", "string">>,
       <<"deps", "deps">>, <<"filename", "string">> >>

read_field(r, kind) ==
    IF kind = "int" THEN TocReader_read_int(r)
    ELSE IF kind = "string" THEN TocReader_read_string(r)
    ELSE IF kind = "deps" THEN read_deps(r, << >>)
    ELSE IF kind = "datetime" THEN TocReader_read_datetime(r)
    ELSE IF kind = "magic" THEN TocReader_read_magic(r)
    ELSE IF kind = "version" THEN TocReader_read_version(r)
    ELSE TocReader_read_flags(r)

\* the reads of read_header or read_entry from field i on, each followed
\* by "?"
RECURSIVE read_fields(_, _, _, _)
read_fields(r, fields, i, vals) ==
    IF Failed(r) \/ i > Len(fields) THEN [r |-> r, v |-> vals]
    ELSE read_fields(read_field(r, fields[i][2]).r, fields, i + 1,
                     Append(vals, read_field(r, fields[i][2]).v))

FieldAt(fields, name) == CHOOSE k \in 1..Len(fields) : fields[k][1] = name

\* TocHeader { .. } and TocEntry { .. } built from the values read
StructOf(fields, x) ==
    [r |-> x.r,
     v |-> IF Failed(x.r) THEN << >>
           ELSE [name \in {fields[k][1] : k \in 1..Len(fields)} |->
                    x.v[FieldAt(fields, name)]]]

TocReader_read_header(r) == StructOf(HeaderFields, read_fields(r, HeaderFields, 1, << >>))

TocReader_read_entry(r) == StructOf(EntryFields, read_fields(r, EntryFields, 1, << >>))

(***************************************************************************)
(* TocWriter: header and entry (toc_writer.rs)                             *)
(***************************************************************************)
\* write_int for each value of vals from position i on, each followed by "?"
RECURSIVE write_ints(_, _, _)
write_ints(w, vals, i) ==
    IF Failed(w) \/ i > Len(vals) THEN w
    ELSE write_ints(TocWriter_write_int(w, vals[i]), vals, i + 1)

TocWriter_write_timestamp(w, tm) ==
    write_ints(w, <<tm.second, tm.minute, tm.hour, tm.day, tm.month, tm.year,
                    tm.is_dst>>, 1)

\* for dp in &te.deps { write_string(dp)? }
RECURSIVE write_deps(_, _, _)
write_deps(w, deps, i) ==
    IF Failed(w) \/ i > Len(deps) THEN w
    ELSE write_deps(TocWriter_write_string(w, deps[i]), deps, i + 1)

\* the deps are followed by the absent string that ends them
write_field(w, kind, val) ==
    IF kind = "int" THEN TocWriter_write_int(w, val)
    ELSE IF kind = "string" THEN TocWriter_write_string(w, val)
    ELSE IF kind = "deps"
         THEN TocWriter_write_string(write_deps(w, val, 1), TocString_none)
    ELSE IF kind = "datetime" THEN TocWriter_write_timestamp(w, val)
    ELSE write_all(w, val)

\* the writes of write_header or write_toc_entry from field i on, each
\* followed by "?"
RECURSIVE write_fields(_, _, _, _)
write_fields(w, fields, st, i) ==
    IF Failed(w) \/ i > Len(fields) THEN w
    ELSE write_fields(write_field(w, fields[i][2], st[fields[i][1]]), fields,
                      st, i + 1)

TocWriter_write_header(w, header_) == write_fields(w, HeaderFields, header_, 1)

TocWriter_write_toc_entry(w, te) == write_fields(w, EntryFields, te, 1)

(***************************************************************************)
(* chrono: the civil dates and times NaiveDate::from_ymd_opt and           *)
(* NaiveTime::from_hms_opt accept.  Arguments cast with "as u32" are       *)
(* negative i32 values turned into numbers above 2^31, which no month,     *)
(* day, hour, minute or second admits.                                     *)
(***************************************************************************)
MIN_YEAR == -262143
MAX_YEAR == 262142

is_leap_year(y) == y % 4 = 0 /\ (y % 100 # 0 \/ y % 400 = 0)

days_in_month(y, m) ==
    IF m = 2 THEN (IF is_leap_year(y) THEN 29 ELSE 28)
    ELSE IF m \in {4, 6, 9, 11} THEN 30
    ELSE 31

from_ymd_opt(y, m, d) ==
    /\ MIN_YEAR <= y /\ y <= MAX_YEAR
    /\ 1 <= m /\ m <= 12
    /\ 1 <= d /\ d <= days_in_month(y, m)

from_hms_opt(h, m, s) ==
    /\ 0 <= h /\ h < 24
    /\ 0 <= m /\ m < 60
    /\ 0 <= s /\ s < 60

NaiveDateTime_new(y, mo, d, h, mi, s) ==
    [year |-> y, month |-> mo, day |-> d, hour |-> h, minute |-> mi, second |-> s]

\* year + 1900 on i32: a panic with overflow checks, a wrap without
year_plus_1900(year) ==
    IF year <= I32Max - 1900 THEN [err |-> "", v |-> year + 1900]
    ELSE IF overflow_checks THEN [err |-> AddOverflow, v |-> 0]
    ELSE [err |-> "", v |-> ((year - I32Max) + 1899) + I32Min]

(***************************************************************************)
(* lib.rs: the free functions of the first implementation, which           *)
(* print_toc and rewrite_toc of that file call.  A copy function works on  *)
(* a reader and a writer; io is the pair [r, w].                           *)
(***************************************************************************)
IoFailed(io) == Failed(io.r) \/ Failed(io.w)

\* writer.write_all(&buf)? after let buf = <read>?
Written(buf, w) ==
    IF Failed(buf.r) THEN [r |-> buf.r, w |-> w]
    ELSE [r |-> buf.r, w |-> write_all(w, buf.v)]

read_magic(r) == magic_checked(read_exact(r, 5))

copy_magic(io) == Written(read_magic(io.r), io.w)

lib_version_checked(x) ==
    IF Failed(x.r) THEN x
    ELSE IF 1 # x.v[1] /\ 14 # x.v[2] THEN Fail(x, "Version check failure")
    ELSE x

read_version(r) == lib_version_checked(read_exact(r, 3))

copy_version(io) == Written(read_version(io.r), io.w)

read_flags(r) == flags_checked(read_exact(r, 3))

copy_flags(io) == Written(read_flags(io.r), io.w)

\* lib.rs write_int and read_int have the text of the TocWriter and
\* TocReader methods
write_int(w, val) == TocWriter_write_int(w, val)

read_int(r) == TocReader_read_int(r)

\* write_int(writer, val)? after let val = read_int(reader)?
WrittenInt(val, w) ==
    IF Failed(val.r) THEN [r |-> val.r, w |-> w, v |-> 0]
    ELSE [r |-> val.r, w |-> write_int(w, val.v), v |-> val.v]

copy_int(io) == WrittenInt(read_int(io.r), io.w)

\* n calls of read_int of lib.rs, each followed by "?"
RECURSIVE lib_read_ints(_, _, _)
lib_read_ints(r, n, vals) ==
    IF Failed(r) \/ n = 0 THEN [r |-> r, v |-> vals]
    ELSE lib_read_ints(read_int(r).r, n - 1, Append(vals, read_int(r).v))

\* sec, min, hour, day, month, year and _is_dst were read into x.v
NaiveDateTimeOf(x, y) ==
    IF Failed(x.r) THEN [r |-> x.r, v |-> NaiveDateTime_new(0, 0, 0, 0, 0, 0)]
    ELSE IF y.err # ""
         THEN [r |-> [x.r EXCEPT !.err = y.err], v |-> NaiveDateTime_new(0, 0, 0, 0, 0, 0)]
    ELSE IF ~from_ymd_opt(y.v, x.v[5], x.v[4])
         THEN [r |-> [x.r EXCEPT !.err = "Invalid date"],
               v |-> NaiveDateTime_new(0, 0, 0, 0, 0, 0)]
    ELSE IF ~from_hms_opt(x.v[3], x.v[2], x.v[1])
         THEN [r |-> [x.r EXCEPT !.err = "Invalid time"],
               v |-> NaiveDateTime_new(0, 0, 0, 0, 0, 0)]
    ELSE [r |-> x.r,
          v |-> NaiveDateTime_new(y.v, x.v[5], x.v[4], x.v[3], x.v[2], x.v[1])]

TimestampOf(x) == NaiveDateTimeOf(x, IF Failed(x.r) THEN [err |-> "", v |-> 0]
                                      ELSE year_plus_1900(x.v[6]))

read_timestamp(r) == TimestampOf(lib_read_ints(r, 7, << >>))

\* write_int of lib.rs for each value of vals from position i on
RECURSIVE lib_write_ints(_, _, _)
lib_write_ints(w, vals, i) ==
    IF Failed(w) \/ i > Len(vals) THEN w
    ELSE lib_write_ints(write_int(w, vals[i]), vals, i + 1)

\* the seven write_int of copy_timestamp; the last one writes 0i32
WriteTimestamp(w, tm) ==
    IF Failed(tm.r) THEN [r |-> tm.r, w |-> w]
    ELSE [r |-> tm.r,
          w |-> lib_write_ints(w, <<tm.v.second, tm.v.minute, tm.v.hour, tm.v.day,
                                    tm.v.month, tm.v.year - 1900, 0>>, 1)]

copy_timestamp(io) == WriteTimestamp(io.w, read_timestamp(io.r))

\* what read_string_opt makes of the length len.v read by read_int
opt_of_len(len) ==
    IF Failed(len.r) THEN [r |-> len.r, v |-> TocString_none]
    ELSE IF len.v < 0 THEN [r |-> len.r, v |-> TocString_none]
    ELSE IF len.v = 0 THEN [r |-> len.r, v |-> TocString_empty]
    ELSE string_of_buf(read_exact(len.r, len.v))

read_string_opt(r) == opt_of_len(read_int(r))

write_string_opt(w, opt) ==
    IF opt.some THEN write_all(write_int(w, Len(opt.bytes)), opt.bytes)
    ELSE write_int(w, -1)

\* write_string_opt(writer, &opt)? after let opt = read_string_opt(reader)?
WrittenOpt(opt, w) ==
    IF Failed(opt.r) THEN [r |-> opt.r, w |-> w, v |-> opt.v]
    ELSE [r |-> opt.r, w |-> write_string_opt(w, opt.v), v |-> opt.v]

copy_string_opt(io) == WrittenOpt(read_string_opt(io.r), io.w)

\* match bin_opt { Some(bin) => Ok(..), None => Err(..) }
SomeOrErr(bin_opt) ==
    IF IoFailed(bin_opt) THEN bin_opt
    ELSE IF bin_opt.v.some THEN bin_opt
    ELSE [bin_opt EXCEPT !.r.err = "String read failed"]

copy_string(io) == SomeOrErr(copy_string_opt(io))

\* the copies of copy_header, in order
HeaderCopies ==
    <<"magic", "version", "flags", "int", "timestamp", "string", "string", "string">>

copy_field(io, kind) ==
    IF kind = "magic" THEN copy_magic(io)
    ELSE IF kind = "version" THEN copy_version(io)
    ELSE IF kind = "flags" THEN copy_flags(io)
    ELSE IF kind = "int" THEN copy_int(io)
    ELSE IF kind = "timestamp" THEN copy_timestamp(io)
    ELSE copy_string(io)

\* the copies of copy_header from position i on, each followed by "?"
RECURSIVE copy_fields(_, _)
copy_fields(io, i) ==
    IF IoFailed(io) \/ i > Len(HeaderCopies) THEN [r |-> io.r, w |-> io.w]
    ELSE copy_fields(copy_field(io, HeaderCopies[i]), i + 1)

copy_header(io) == copy_fields(io, 1)

(***************************************************************************)
(* The binary layout of toc.dat, written down from the field order of      *)
(* read_header and read_entry: what a dump holds for a given header and    *)
(* entry list.  Integers are a sign byte and the magnitude, strings a      *)
(* length and the bytes, the deps end with an absent string.               *)
(***************************************************************************)
WireInt(v) == <<IF v < 0 THEN 1 ELSE 0>> \o AbsLe(v)

WireStr(ts) == IF ts.some THEN WireInt(Len(ts.bytes)) \o ts.bytes ELSE WireInt(-1)

RECURSIVE WireStrs(_)
WireStrs(seq) == IF seq = << >> THEN << >> ELSE WireStr(Head(seq)) \o WireStrs(Tail(seq))

WireTimestamp(t) ==
    WireInt(t.second) \o WireInt(t.minute) \o WireInt(t.hour) \o WireInt(t.day)
        \o WireInt(t.month) \o WireInt(t.year) \o WireInt(t.is_dst)

WireHeader(h) ==
    h.magic \o h.version \o h.flags \o WireInt(h.compression)
        \o WireTimestamp(h.timestamp) \o WireStr(h.postgres_dbname)
        \o WireStr(h.version_server) \o WireStr(h.version_pgdump)
        \o WireInt(h.toc_count)

WireEntry(e) ==
    WireInt(e.dump_id) \o WireInt(e.had_dumper) \o WireStr(e.table_oid)
        \o WireStr(e.catalog_oid) \o WireStr(e.tag) \o WireStr(e.description)
        \o WireInt(e.section) \o WireStr(e.create_stmt) \o WireStr(e.drop_stmt)
        \o WireStr(e.copy_stmt) \o WireStr(e.namespace) \o WireStr(e.tablespace)
        \o WireStr(e.tableam) \o WireStr(e.owner) \o WireStr(e.table_with_oids)
        \o WireStrs(e.deps) \o WireStr(TocString_none) \o WireStr(e.filename)

RECURSIVE WireEntries(_)
WireEntries(es) == IF es = << >> THEN << >> ELSE WireEntry(Head(es)) \o WireEntries(Tail(es))

WireFile(h, es) == WireHeader(h) \o WireEntries(es)

(***************************************************************************)
(* Scenario 2: a toc.dat is read and written back, directly or by way of   *)
(* its JSON form, and its header is copied by copy_header of lib.rs.       *)
(***************************************************************************)
MaxDeps == 2
MaxEntries == 2

S_ab == TocString_new(<<97, 98>>)
S_yen == TocString_new(<<194, 165, 49>>)
S_bad == TocString_new(<<255>>)

HeaderStrings == {TocString_none, TocString_empty, S_ab, S_yen, S_bad}
DepStrings == {TocString_empty, S_ab, TocString_new(<<49>>)}

BaseTs == TocDateTime_new(1, 2, 3, 4, 5, 120, 0)

TsSamples ==
    {TocDateTime_new(s, 2, 3, d, m, 120, dst) :
        s \in {1, 60}, d \in {4, 31}, m \in {0, 2, 5}, dst \in {0, 1, 2, -1}}
    \cup {TocDateTime_new(1, 2, 3, 4, 5, I32Max, 0),
          TocDateTime_new(1, 2, 3, 29, 2, 100, 1),
          TocDateTime_new(1, 2, 24, 4, 5, 120, 0),
          TocDateTime_new(1, -2, 3, 4, 5, 120, 0),
          TocDateTime_new(I32Min, 2, 3, 4, 5, 120, 0),
          TocDateTime_new(1, 2, 3, 4, 5, 120, I32Min)}

Hdr(magic, version, flags, compression, ts, s1, s2, s3, n) ==
    [magic |-> magic, version |-> version, flags |-> flags,
     compression |-> compression, timestamp |-> ts, postgres_dbname |-> s1,
     version_server |-> s2, version_pgdump |-> s3, toc_count |-> n]

BaseHdr(n) == Hdr(PGDMP, <<1, 14, 0>>, <<4, 8, 3>>, 0, BaseTs, S_ab, S_ab, S_ab, n)

Ent(i1, i2, i3, a, b, deps, filename) ==
    [dump_id |-> i1, had_dumper |-> i2, table_oid |-> a, catalog_oid |-> b,
     tag |-> a, description |-> b, section |-> i3, create_stmt |-> a,
     drop_stmt |-> b, copy_stmt |-> a, namespace |-> b, tablespace |-> a,
     tableam |-> b, owner |-> a, table_with_oids |-> b, deps |-> deps,
     filename |-> filename]

BaseEnt == Ent(41, 1, 3, S_ab, TocString_empty, <<S_ab>>, TocString_none)

DepLists == UNION {[1..n -> DepStrings] : n \in 0..MaxDeps}

EntSamples ==
    {Ent(i, 1, 3, S_ab, S_ab, << >>, S_ab) : i \in {0, -5, I32Max, I32Min}}
    \cup {Ent(41, 1, i, S_ab, S_ab, << >>, S_ab) : i \in {-1, I32Min}}
    \cup {Ent(41, 0, 3, a, b, << >>, a) : a, b \in HeaderStrings}
    \cup {Ent(41, 1, 3, S_ab, TocString_none, deps, f) :
            deps \in DepLists, f \in {TocString_none, S_yen}}

ListEnts == {BaseEnt, Ent(0, 0, 0, TocString_none, S_yen, <<S_ab, S_ab>>, S_ab)}

EntLists == UNION {[1..n -> ListEnts] : n \in 0..MaxEntries}

HeaderSamples ==
    {Hdr(m, v, f, 0, BaseTs, S_ab, S_ab, S_ab, 1) :
        m \in {PGDMP, <<80, 71, 68, 77, 81>>},
        v \in {<<1, 14, 0>>, <<1, 14, 7>>, <<1, 13, 0>>, <<2, 14, 0>>, <<2, 13, 0>>},
        f \in {<<4, 8, 3>>, <<8, 8, 3>>, <<4, 4, 3>>, <<4, 8, 1>>}}
    \cup {Hdr(PGDMP, <<1, 14, 0>>, <<4, 8, 3>>, c, ts, S_ab, S_ab, S_ab, 1) :
            c \in {0, 6, -1}, ts \in TsSamples}
    \cup {Hdr(PGDMP, <<1, 14, 0>>, <<4, 8, 3>>, I32Min, BaseTs, S_ab, S_ab, S_ab, 1)}
    \cup {Hdr(PGDMP, <<1, 14, 0>>, <<4, 8, 3>>, 6, BaseTs, a, b, a, 1) :
            a, b \in HeaderStrings}

\* a header and the entries that follow it
TocSamples ==
    {[h |-> h, es |-> <<BaseEnt>>] : h \in HeaderSamples}
    \cup {[h |-> BaseHdr(1), es |-> <<e>>] : e \in EntSamples}
    \cup {[h |-> BaseHdr(Len(es)), es |-> es] : es \in EntLists}
    \cup {[h |-> BaseHdr(2), es |-> <<BaseEnt>>], [h |-> BaseHdr(-1), es |-> << >>]}

HeaderOk(h) ==
    /\ h.magic = PGDMP
    /\ h.version[1] = 1 /\ h.version[2] = 14
    /\ h.flags = <<4, 8, 3>>

\* the dumps of the supported format
ValidSamples == {s \in TocSamples : HeaderOk(s.h) /\ s.h.toc_count = Len(s.es)}

ValidFiles == {WireFile(s.h, s.es) : s \in ValidSamples}

\* byte sequences that are not the layout of any header: a negative zero,
\* a sign byte other than 0 and 1, a dump cut short
RawFiles ==
    {PGDMP \o <<1, 14, 0, 4, 8, 3>> \o c \o WireTimestamp(BaseTs)
        \o WireStr(S_ab) \o WireStr(S_ab) \o WireStr(S_ab) \o WireInt(0) :
        c \in {<<1, 0, 0, 0, 0>>, <<2, 5, 0, 0, 0>>}}
    \cup {SubSeq(WireFile(BaseHdr(1), <<BaseEnt>>), 1, n) : n \in {3, 60, 100}}

Files == {WireFile(s.h, s.es) : s \in TocSamples} \cup RawFiles

(***************************************************************************)
(* The JSON form (toc_header.rs, toc_entry.rs, toc_string.rs,              *)
(* toc_datetime.rs).  A String is the sequence of its code points; the     *)
(* texts made by format! are sequences of one-character strings.           *)
(***************************************************************************)
Cont(b) == 128 <= b /\ b <= 191

\* the length of the UTF-8 sequence that starts bytes, 0 when none is valid
Utf8SeqLen(bytes) ==
    LET n == Len(bytes)
        b0 == bytes[1]
    IN  IF b0 < 128 THEN 1
        ELSE IF 194 <= b0 /\ b0 <= 223
             THEN (IF n >= 2 /\ Cont(bytes[2]) THEN 2 ELSE 0)
        ELSE IF 224 <= b0 /\ b0 <= 239
             THEN (IF /\ n >= 3 /\ Cont(bytes[2]) /\ Cont(bytes[3])
                      /\ (b0 = 224 => bytes[2] >= 160)
                      /\ (b0 = 237 => bytes[2] <= 159)
                   THEN 3 ELSE 0)
        ELSE IF 240 <= b0 /\ b0 <= 244
             THEN (IF /\ n >= 4 /\ Cont(bytes[2]) /\ Cont(bytes[3]) /\ Cont(bytes[4])
                      /\ (b0 = 240 => bytes[2] >= 144)
                      /\ (b0 = 244 => bytes[2] <= 143)
                   THEN 4 ELSE 0)
        ELSE 0

Utf8CodePoint(bytes, k) ==
    IF k = 1 THEN bytes[1]
    ELSE IF k = 2 THEN ((bytes[1] - 192) * 64) + (bytes[2] - 128)
    ELSE IF k = 3
         THEN ((bytes[1] - 224) * 4096) + ((bytes[2] - 128) * 64) + (bytes[3] - 128)
    ELSE ((bytes[1] - 240) * 262144) + ((bytes[2] - 128) * 4096)
             + ((bytes[3] - 128) * 64) + (bytes[4] - 128)

\* String::from_utf8
RECURSIVE from_utf8(_, _)
from_utf8(bytes, acc) ==
    IF bytes = << >> THEN [err |-> "", v |-> acc]
    ELSE LET k == Utf8SeqLen(bytes)
         IN  IF k = 0 THEN [err |-> "FromUtf8Error", v |-> << >>]
             ELSE from_utf8(SubSeq(bytes, k + 1, Len(bytes)),
                            Append(acc, Utf8CodePoint(bytes, k)))

encode_utf8(c) ==
    IF c < 128 THEN <<c>>
    ELSE IF c < 2048 THEN <<192 + (c \div 64), 128 + (c % 64)>>
    ELSE IF c < 65536
         THEN <<224 + (c \div 4096), 128 + ((c \div 64) % 64), 128 + (c % 64)>>
    ELSE <<240 + (c \div 262144), 128 + ((c \div 4096) % 64),
           128 + ((c \div 64) % 64), 128 + (c % 64)>>

\* String::into_bytes
RECURSIVE into_bytes(_)
into_bytes(st) ==
    IF st = << >> THEN << >> ELSE encode_utf8(Head(st)) \o into_bytes(Tail(st))

NoneString == [some |-> FALSE, chars |-> << >>]

TocString_to_string_opt(ts) ==
    IF ts.some
    THEN LET st == from_utf8(ts.bytes, << >>)
         IN  [err |-> st.err, v |-> [some |-> TRUE, chars |-> st.v]]
    ELSE [err |-> "", v |-> NoneString]

TocString_from_string_opt(opt) ==
    IF opt.some THEN TocString_new(into_bytes(opt.chars)) ELSE TocString_none

HexDigits == <<"0", "1", "2", "3", "4", "5", "6", "7", "8", "9",
               "a", "b", "c", "d", "e", "f">>

\* format!("{:02x}", byte)
format_02x(byte) == <<HexDigits[(byte \div 16) + 1], HexDigits[(byte % 16) + 1]>>

HexValue(c) ==
    IF \E k \in 1..16 : HexDigits[k] = c
    THEN (CHOOSE k \in 1..16 : HexDigits[k] = c) - 1
    ELSE IF c \in {"A", "B", "C", "D", "E", "F"}
         THEN (CHOOSE k \in 11..16 :
                 <<"A", "B", "C", "D", "E", "F">>[k - 10] = c) - 1
    ELSE -1

\* u8::from_str_radix(hex, 16): -1 stands for Err
RECURSIVE from_str_radix(_, _)
from_str_radix(hex, acc) ==
    IF hex = << >> THEN acc
    ELSE IF HexValue(Head(hex)) < 0 \/ (acc * 16) + HexValue(Head(hex)) > 255 THEN -1
    ELSE from_str_radix(Tail(hex), (acc * 16) + HexValue(Head(hex)))

\* u8::from_str_radix(hex, 16).unwrap_or(0)
parse_hex_byte(hex) ==
    LET digits == IF hex # << >> /\ Head(hex) = "+" THEN Tail(hex) ELSE hex
        v == from_str_radix(digits, 0)
    IN  IF digits = << >> \/ v < 0 THEN 0 ELSE v

to_hex(bytes) == [k \in 1..Len(bytes) |-> format_02x(bytes[k])]

of_hex(hexes) == [k \in 1..Len(hexes) |-> parse_hex_byte(hexes[k])]

TocDateTime_to_naive_date_time(t) ==
    LET y == year_plus_1900(t.year)
        none == NaiveDateTime_new(0, 0, 0, 0, 0, 0)
    IN  IF y.err # "" THEN [err |-> y.err, ndt |-> none, is_dst |-> FALSE]
        ELSE IF ~from_ymd_opt(y.v, t.month, t.day)
             THEN [err |-> "Invalid date", ndt |-> none, is_dst |-> FALSE]
        ELSE IF ~from_hms_opt(t.hour, t.minute, t.second)
             THEN [err |-> "Invalid time", ndt |-> none, is_dst |-> FALSE]
        ELSE [err |-> "",
              ndt |-> NaiveDateTime_new(y.v, t.month, t.day, t.hour, t.minute, t.second),
              is_dst |-> t.is_dst > 0]

TocDateTime_from_naive_date_time(ndt, is_dst) ==
    TocDateTime_new(ndt.second, ndt.minute, ndt.hour, ndt.day, ndt.month,
                    ndt.year - 1900, IF is_dst THEN 1 ELSE 0)

DecDigits == <<"0", "1", "2", "3", "4", "5", "6", "7", "8", "9">>

RECURSIVE Decimal(_)
Decimal(n) ==
    IF n < 10 THEN <<DecDigits[n + 1]>>
    ELSE Append(Decimal(n \div 10), DecDigits[(n % 10) + 1])

RECURSIVE ZeroPad(_, _)
ZeroPad(txt, width) == IF Len(txt) >= width THEN txt ELSE ZeroPad(<<"0">> \o txt, width)

\* %Y: four digits at least, a sign outside 0..9999
format_year(y) ==
    IF y < 0 THEN <<"-">> \o ZeroPad(Decimal(-y), 4)
    ELSE IF y > 9999 THEN <<"+">> \o Decimal(y)
    ELSE ZeroPad(Decimal(y), 4)

\* ndt.format("%Y-%m-%d %H:%M:%S").to_string()
format_ndt(ndt) ==
    format_year(ndt.year) \o <<"-">> \o ZeroPad(Decimal(ndt.month), 2) \o <<"-">>
        \o ZeroPad(Decimal(ndt.day), 2) \o <<" ">> \o ZeroPad(Decimal(ndt.hour), 2)
        \o <<":">> \o ZeroPad(Decimal(ndt.minute), 2) \o <<":">>
        \o ZeroPad(Decimal(ndt.second), 2)

IsDigit(c) == \E k \in 1..10 : DecDigits[k] = c
DigitValue(c) == (CHOOSE k \in 1..10 : DecDigits[k] = c) - 1

\* at most max digits of txt from position i: the number and where it ends
RECURSIVE scan_number(_, _, _, _, _)
scan_number(txt, i, max, n, acc) ==
    IF n < max /\ i + n <= Len(txt) /\ IsDigit(txt[i + n])
    THEN scan_number(txt, i, max, n + 1, (acc * 10) + DigitValue(txt[i + n]))
    ELSE [ok |-> n > 0, v |-> acc, next |-> i + n]

scan_year(txt) ==
    IF txt # << >> /\ txt[1] \in {"+", "-"}
    THEN LET x == scan_number(txt, 2, 6, 0, 0)
         IN  [x EXCEPT !.v = IF txt[1] = "-" THEN -x.v ELSE x.v]
    ELSE scan_number(txt, 1, 4, 0, 0)

Lit(txt, i, c) == i <= Len(txt) /\ txt[i] = c

\* NaiveDateTime::parse_from_str(txt, "%Y-%m-%d %H:%M:%S")
parse_from_str(txt) ==
    LET y == scan_year(txt)
        mo == scan_number(txt, y.next + 1, 2, 0, 0)
        d == scan_number(txt, mo.next + 1, 2, 0, 0)
        h == scan_number(txt, d.next + 1, 2, 0, 0)
        mi == scan_number(txt, h.next + 1, 2, 0, 0)
        sec == scan_number(txt, mi.next + 1, 2, 0, 0)
        none == NaiveDateTime_new(0, 0, 0, 0, 0, 0)
    IN  IF /\ y.ok /\ Lit(txt, y.next, "-") /\ mo.ok /\ Lit(txt, mo.next, "-")
           /\ d.ok /\ Lit(txt, d.next, " ") /\ h.ok /\ Lit(txt, h.next, ":")
           /\ mi.ok /\ Lit(txt, mi.next, ":") /\ sec.ok /\ sec.next = Len(txt) + 1
           /\ from_ymd_opt(y.v, mo.v, d.v) /\ from_hms_opt(h.v, mi.v, sec.v)
        THEN [err |-> "", v |-> NaiveDateTime_new(y.v, mo.v, d.v, h.v, mi.v, sec.v)]
        ELSE [err |-> "ParseError", v |-> none]

\* the first error of a sequence of results, "" when there is none
RECURSIVE FirstErr(_)
FirstErr(rs) ==
    IF rs = << >> THEN ""
    ELSE IF Head(rs).err # "" THEN Head(rs).err
    ELSE FirstErr(Tail(rs))

TocHeader_to_json(h) ==
    LET tm == TocDateTime_to_naive_date_time(h.timestamp)
        postgres_dbname == TocString_to_string_opt(h.postgres_dbname)
        version_server == TocString_to_string_opt(h.version_server)
        version_pgdump == TocString_to_string_opt(h.version_pgdump)
    IN  [err |-> FirstErr(<<[err |-> tm.err], postgres_dbname, version_server,
                            version_pgdump>>),
         v |-> [magic |-> to_hex(h.magic), version |-> to_hex(h.version),
                flags |-> to_hex(h.flags), compression |-> h.compression,
                timestamp |-> format_ndt(tm.ndt), is_dst |-> tm.is_dst,
                postgres_dbname |-> postgres_dbname.v,
                version_server |-> version_server.v,
                version_pgdump |-> version_pgdump.v,
                toc_count |-> h.toc_count]]

TocHeader_from_json(j) ==
    LET ndt == parse_from_str(j.timestamp)
    IN  [err |-> ndt.err,
         v |-> [magic |-> of_hex(j.magic), version |-> of_hex(j.version),
                flags |-> of_hex(j.flags), compression |-> j.compression,
                timestamp |-> TocDateTime_from_naive_date_time(ndt.v, j.is_dst),
                postgres_dbname |-> TocString_from_string_opt(j.postgres_dbname),
                version_server |-> TocString_from_string_opt(j.version_server),
                version_pgdump |-> TocString_from_string_opt(j.version_pgdump),
                toc_count |-> j.toc_count]]

TocEntry_to_json(te) ==
    LET deps == [k \in 1..Len(te.deps) |-> TocString_to_string_opt(te.deps[k])]
        table_oid == TocString_to_string_opt(te.table_oid)
        catalog_oid == TocString_to_string_opt(te.catalog_oid)
        tag == TocString_to_string_opt(te.tag)
        description == TocString_to_string_opt(te.description)
        create_stmt == TocString_to_string_opt(te.create_stmt)
        drop_stmt == TocString_to_string_opt(te.drop_stmt)
        copy_stmt == TocString_to_string_opt(te.copy_stmt)
        namespace == TocString_to_string_opt(te.namespace)
        tablespace == TocString_to_string_opt(te.tablespace)
        tableam == TocString_to_string_opt(te.tableam)
        owner == TocString_to_string_opt(te.owner)
        table_with_oids == TocString_to_string_opt(te.table_with_oids)
        filename == TocString_to_string_opt(te.filename)
    IN  [err |-> FirstErr(deps \o <<table_oid, catalog_oid, tag, description,
                            create_stmt, drop_stmt, copy_stmt, namespace,
                            tablespace, tableam, owner, table_with_oids, filename>>),
         v |-> [dump_id |-> te.dump_id, had_dumper |-> te.had_dumper,
                table_oid |-> table_oid.v, catalog_oid |-> catalog_oid.v,
                tag |-> tag.v, description |-> description.v,
                section |-> te.section, create_stmt |-> create_stmt.v,
                drop_stmt |-> drop_stmt.v, copy_stmt |-> copy_stmt.v,
                namespace |-> namespace.v, tablespace |-> tablespace.v,
                tableam |-> tableam.v, owner |-> owner.v,
                table_with_oids |-> table_with_oids.v,
                deps |-> [k \in 1..Len(deps) |-> deps[k].v],
                filename |-> filename.v]]

TocEntry_from_json(j) ==
    [dump_id |-> j.dump_id, had_dumper |-> j.had_dumper,
     table_oid |-> TocString_from_string_opt(j.table_oid),
     catalog_oid |-> TocString_from_string_opt(j.catalog_oid),
     tag |-> TocString_from_string_opt(j.tag),
     description |-> TocString_from_string_opt(j.description),
     section |-> j.section,
     create_stmt |-> TocString_from_string_opt(j.create_stmt),
     drop_stmt |-> TocString_from_string_opt(j.drop_stmt),
     copy_stmt |-> TocString_from_string_opt(j.copy_stmt),
     namespace |-> TocString_from_string_opt(j.namespace),
     tablespace |-> TocString_from_string_opt(j.tablespace),
     tableam |-> TocString_from_string_opt(j.tableam),
     owner |-> TocString_from_string_opt(j.owner),
     table_with_oids |-> TocString_from_string_opt(j.table_with_oids),
     deps |-> [k \in 1..Len(j.deps) |-> TocString_from_string_opt(j.deps[k])],
     filename |-> TocString_from_string_opt(j.filename)]

\* header.toc_count calls of read_entry, stopped by the first error; te is
\* the entry just read
RECURSIVE read_entries(_, _, _)
entries_push(te, n, acc) ==
    IF Failed(te.r) THEN [r |-> te.r, v |-> acc]
    ELSE read_entries(te.r, n - 1, Append(acc, te.v))

read_entries(r, n, acc) ==
    IF n <= 0 \/ Failed(r) THEN [r |-> r, v |-> acc]
    ELSE entries_push(TocReader_read_entry(r), n, acc)

RECURSIVE write_entries(_, _, _)
write_entries(w, es, i) ==
    IF Failed(w) \/ i > Len(es) THEN w
    ELSE write_entries(TocWriter_write_toc_entry(w, es[i]), es, i + 1)

InitToc ==
    /\ overflow_checks \in BOOLEAN
    /\ pc = "start"
    /\ file \in Files
    /\ reader = NewReader(file)
    /\ writer = NewWriter
    /\ header = NoHeader /\ entries = << >> /\ json = NoJson
    /\ IdlePrim /\ IdleSql /\ IdleRen /\ IdleFs

\* the dump is read: the header, then toc_count entries
ReadToc ==
    /\ pc = "start"
    /\ \E h \in {TocReader_read_header(reader)} :
          IF Failed(h.r)
          THEN /\ reader' = h.r
               /\ pc' = "read_failed"
               /\ UNCHANGED <<header, entries>>
          ELSE \E es \in {read_entries(h.r, h.v.toc_count, << >>)} :
                  /\ reader' = es.r
                  /\ header' = h.v
                  /\ entries' = es.v
                  /\ pc' = IF Failed(es.r) THEN "read_failed" ELSE "loaded"
    /\ UNCHANGED <<overflow_checks, writer, file, json, primVars, sqlVars, renVars, fsVars>>

\* the header and the entries held in memory are written to a new dump
WriteToc ==
    /\ pc = "loaded"
    /\ writer' = write_entries(TocWriter_write_header(writer, header), entries, 1)
    /\ pc' = IF Failed(writer') THEN "write_failed" ELSE "written"
    /\ UNCHANGED <<overflow_checks, reader, tocVars, primVars, sqlVars, renVars, fsVars>>

\* rewrite_toc of lib.rs copies the header from the source dump to the new one
LibCopyHeader ==
    /\ pc = "start"
    /\ \E io \in {copy_header([r |-> reader, w |-> writer])} :
          /\ reader' = io.r
          /\ writer' = io.w
          /\ pc' = IF IoFailed(io) THEN "lib_failed" ELSE "lib_copied"
    /\ UNCHANGED <<overflow_checks, tocVars, primVars, sqlVars, renVars, fsVars>>

\* the header and the entries held in memory are turned into their JSON form
ToJson ==
    /\ pc = "loaded" /\ json.err = "none"
    /\ \E js \in {<<TocHeader_to_json(header)>>
                      \o [k \in 1..Len(entries) |-> TocEntry_to_json(entries[k])]} :
          \E err \in {FirstErr(js)} :
             IF err # ""
             THEN /\ json' = [ok |-> FALSE, err |-> err]
                  /\ pc' = "to_json_failed"
             ELSE /\ json' = [ok |-> TRUE, err |-> "", header |-> js[1].v,
                              entries |-> [k \in 1..Len(entries) |-> js[k + 1].v]]
                  /\ pc' = "json"
    /\ UNCHANGED <<overflow_checks, reader, writer, file, header, entries,
                   primVars, sqlVars, renVars, fsVars>>

\* the JSON form is turned back into a header and entries
FromJson ==
    /\ pc = "json"
    /\ \E h \in {TocHeader_from_json(json.header)} :
          IF h.err # ""
          THEN /\ pc' = "from_json_failed"
               /\ UNCHANGED <<header, entries>>
          ELSE /\ header' = h.v
               /\ entries' = [k \in 1..Len(json.entries) |->
                                 TocEntry_from_json(json.entries[k])]
               /\ pc' = "loaded"
    /\ UNCHANGED <<overflow_checks, reader, writer, file, json, primVars, sqlVars, renVars, fsVars>>

NextToc == ReadToc \/ WriteToc \/ LibCopyHeader \/ ToJson \/ FromJson

SpecToc == InitToc /\ [][NextToc]_vars

(***************************************************************************)
(* Claims about the dump codec (checked under SpecToc)                     *)
(***************************************************************************)
\* the driver read the dump and did not go through the JSON form
Direct == json.err = "none"

\* the positions of the driver at which TocReader has read the whole dump
TocLoaded ==
    pc \in {"loaded", "written", "write_failed", "json", "to_json_failed",
            "from_json_failed"}

\* the three header checks, on the bytes of the input
FileHeaderOk ==
    /\ Len(file) >= 11
    /\ SubSeq(file, 1, 5) = PGDMP
    /\ file[6] = 1 /\ file[7] = 14
    /\ SubSeq(file, 9, 11) = <<4, 8, 3>>

HeaderCheckErrors ==
    {"Magic check failure", "Version check failure", "Int size check failed",
     "Offset check failed", "Format check failed"}

\* the 35 bytes of the seven timestamp integers of a dump
TimestampBytes(bytes) == SubSeq(bytes, 17, 51)

\* C1: for every valid toc.dat, read_header and toc_count read_entry calls
\* followed by write_header and write_toc_entry for each entry succeed and
\* produce the bytes of the input.
C1_BinaryRoundTrip ==
    (file \in ValidFiles /\ Direct) =>
        /\ pc \notin {"read_failed", "write_failed"}
        /\ (pc = "written" => writer.buf = file)

\* what holds of the direct round trip: it fails only where a negation
\* overflowed, and what it writes is the input
C1_ExceptNegOverflow ==
    (file \in ValidFiles /\ Direct) =>
        /\ (pc = "read_failed" => reader.err = NegOverflow /\ overflow_checks)
        /\ pc # "write_failed"
        /\ (pc = "written" => writer.buf = file)

\* C6: a header is read successfully only if its magic is PGDMP, its version
\* bytes are 1 and 14 and its flags are 4, 8, 3, by every reader of headers
\* (TocReader and lib.rs); a header that differs in one of them is rejected.
C6_HeaderChecks ==
    /\ (TocLoaded \/ pc = "lib_copied") => FileHeaderOk
    /\ (pc \in {"read_failed", "lib_failed"} /\ Len(file) >= 11 /\ ~FileHeaderOk)
          => reader.err \in HeaderCheckErrors

\* what holds of TocReader alone: it reads a header only if the three checks
\* pass, whatever the third version byte
C6_TocReaderChecks ==
    /\ TocLoaded => FileHeaderOk
    /\ (pc = "read_failed" /\ Len(file) >= 11 /\ ~FileHeaderOk)
          => reader.err \in HeaderCheckErrors

\* C7: the seven timestamp integers of a valid dump are carried as they are:
\* no reader of headers fails on an invalid civil date or on a DST value, and
\* every header written from what was read holds the same 35 bytes.
C7_TimestampVerbatim ==
    file \in ValidFiles =>
        /\ (pc \in {"read_failed", "lib_failed"} =>
               reader.err \notin {"Invalid date", "Invalid time"})
        /\ ((pc = "written" /\ Direct) \/ pc = "lib_copied" =>
               TimestampBytes(writer.buf) = TimestampBytes(file))

\* what holds of TocReader and TocWriter alone
C7_TocReaderVerbatim ==
    file \in ValidFiles =>
        /\ (pc = "read_failed" => reader.err = NegOverflow)
        /\ (pc = "written" /\ Direct =>
               TimestampBytes(writer.buf) = TimestampBytes(file))

\* the string fields of the header and the entries held in memory
StringsInMemory ==
    {header.postgres_dbname, header.version_server, header.version_pgdump}
    \cup UNION {{entries[k][EntryFields[i][1]] :
                    i \in {j \in 1..Len(EntryFields) : EntryFields[j][2] = "string"}}
                \cup {entries[k].deps[d] : d \in 1..Len(entries[k].deps)} :
                k \in 1..Len(entries)}

AllValidUtf8 == \A ts \in StringsInMemory : TocString_to_string_opt(ts).err = ""

\* C2: a valid dump whose strings are all valid UTF-8 goes through to_json
\* and from_json without error and is written back byte for byte, the seven
\* timestamp integers and the DST flag included.
C2_JsonRoundTrip ==
    file \in ValidFiles =>
        /\ (pc = "to_json_failed" => ~AllValidUtf8)
        /\ pc # "from_json_failed"
        /\ (~Direct => pc # "write_failed")
        /\ (pc = "written" /\ ~Direct => writer.buf = file)

\* what holds of the round trip through JSON: what is written differs from
\* the input at most in the DST integer, which comes back as 1 when it was
\* positive and as 0 otherwise
C2_ExceptDst ==
    (file \in ValidFiles /\ pc = "written" /\ ~Direct) =>
        /\ Len(writer.buf) = Len(file)
        /\ \A k \in 1..Len(file) : k \notin 47..51 => writer.buf[k] = file[k]
        /\ SubSeq(writer.buf, 47, 51) \in {<<0, 0, 0, 0, 0>>, <<0, 1, 0, 0, 0>>}
        /\ (SubSeq(writer.buf, 47, 51) = <<0, 1, 0, 0, 0>>
               <=> (file[47] = 0 /\ SubSeq(file, 48, 51) # <<0, 0, 0, 0>>))

(***************************************************************************)
(* SQL tokens (rewrite_sql.rs: Tokenizer::new(&dialect, sql)               *)
(* .tokenize_with_location() with GenericDialect).  A &str is the sequence *)
(* of its chars, each a one-character string; "U+00A5" stands for the      *)
(* two-byte char of that code point.  The letters of the samples begin no  *)
(* prefixed literal (b, e, n, r, u, x are not among them).                 *)
(***************************************************************************)
Letters == {"f", "o", "g", "d", "b", "S", "C", "H", "E", "M", "A"}
AsciiDigits == {"0", "1", "2", "3", "4", "5", "6", "7", "8", "9"}
IdentifierStart == Letters \cup {"_", "#", "@"}
IdentifierPart == Letters \cup AsciiDigits \cup {"@", "$", "#", "_"}

\* what a scan of one token gives: the token and the index after it
Tok(kind, value, quoted, next) ==
    [kind |-> kind, value |-> value, quoted |-> quoted, next |-> next, err |-> ""]

TokErr(msg) ==
    [kind |-> "Error", value |-> << >>, quoted |-> FALSE, next |-> 0, err |-> msg]

\* the index after the longest run of chars of the set from index i
RECURSIVE peeking_take_while(_, _, _)
peeking_take_while(txt, i, chars) ==
    IF i <= Len(txt) /\ txt[i] \in chars
    THEN peeking_take_while(txt, i + 1, chars) ELSE i

\* the index of the first char of the set from index i, Len(txt) + 1 if none
RECURSIVE take_until(_, _, _)
take_until(txt, i, stops) ==
    IF i <= Len(txt) /\ txt[i] \notin stops
    THEN take_until(txt, i + 1, stops) ELSE i

\* the chars from index i up to the closing quote; a doubled quote gives one
RECURSIVE quoted_run(_, _, _, _)
quoted_run(txt, i, quote, acc) ==
    IF i > Len(txt) THEN [closed |-> FALSE, value |-> acc, next |-> i]
    ELSE IF txt[i] = quote
         THEN IF i < Len(txt) /\ txt[i + 1] = quote
              THEN quoted_run(txt, i + 2, quote, Append(acc, quote))
              ELSE [closed |-> TRUE, value |-> acc, next |-> i + 1]
    ELSE quoted_run(txt, i + 1, quote, Append(acc, txt[i]))

SingleQuotedString(x) ==
    IF x.closed THEN Tok("SingleQuotedString", x.value, FALSE, x.next)
    ELSE TokErr("Unterminated string literal")

tokenize_quoted_string(txt, i) == SingleQuotedString(quoted_run(txt, i + 1, "'", << >>))

\* Token::make_word(&s, Some(quote_start))
QuotedWord(x) ==
    IF x.closed THEN Tok("Word", x.value, TRUE, x.next)
    ELSE TokErr("Expected close delimiter before EOF")

parse_quoted_ident(txt, i) == QuotedWord(quoted_run(txt, i + 1, "\"", << >>))

\* Token::make_word(&s, None)
tokenize_word(txt, i) ==
    Tok("Word", SubSeq(txt, i, peeking_take_while(txt, i + 1, IdentifierPart) - 1),
        FALSE, peeking_take_while(txt, i + 1, IdentifierPart))

\* digits, one period, digits: a lone "." is Token::Period
PeriodEnd(txt, j) == IF j <= Len(txt) /\ txt[j] = "." THEN j + 1 ELSE j

NumberOrPeriod(txt, i, j) ==
    IF SubSeq(txt, i, j - 1) = <<".">> THEN Tok("Period", <<".">>, FALSE, j)
    ELSE Tok("Number", SubSeq(txt, i, j - 1), FALSE, j)

tokenize_number(txt, i) ==
    NumberOrPeriod(txt, i,
        peeking_take_while(txt, PeriodEnd(txt, peeking_take_while(txt, i, AsciiDigits)),
                           AsciiDigits))

\* "--" begins a comment that runs to the end of the line, '\n' included
CommentEnd(txt, j) == IF j <= Len(txt) THEN j + 1 ELSE j

SingleLineComment(txt, i, j) == Tok("Whitespace", SubSeq(txt, i, j - 1), FALSE, j)

tokenize_minus(txt, i) ==
    IF i < Len(txt) /\ txt[i + 1] = "-"
    THEN SingleLineComment(txt, i, CommentEnd(txt, take_until(txt, i + 2, {"\n"})))
    ELSE Tok("Minus", <<"-">>, FALSE, i + 1)

\* after "$$": the body up to the next "$$"
RECURSIVE dollar_body(_, _, _, _)
dollar_body(txt, i, prev, acc) ==
    IF i > Len(txt) THEN TokErr("Unterminated dollar-quoted string")
    ELSE IF prev = "$"
         THEN IF txt[i] = "$" THEN Tok("DollarQuotedString", acc, FALSE, i + 1)
              ELSE dollar_body(txt, i + 1, txt[i], acc \o <<"$", txt[i]>>)
    ELSE dollar_body(txt, i + 1, txt[i],
                     IF txt[i] # "$" THEN Append(acc, txt[i]) ELSE acc)

\* "$tag$ body $tag$"; j is the index after the tag, k that of the "$" that
\* follows the body (a body with a "$" inside is not among the samples)
TaggedDollar(txt, i, j, k) ==
    IF /\ k + (j - i) <= Len(txt)
       /\ SubSeq(txt, k, k + (j - i) - 1) = SubSeq(txt, i, j - 1)
       /\ txt[k + (j - i)] = "$"
    THEN Tok("DollarQuotedString", SubSeq(txt, j + 1, k - 1), FALSE, k + (j - i) + 1)
    ELSE TokErr("Unterminated dollar-quoted string")

Placeholder(txt, i, j) ==
    IF j <= Len(txt) /\ txt[j] = "$"
    THEN TaggedDollar(txt, i, j, take_until(txt, j + 1, {"$"}))
    ELSE Tok("Placeholder", SubSeq(txt, i, j - 1), FALSE, j)

tokenize_dollar_preceded_value(txt, i) ==
    IF i < Len(txt) /\ txt[i + 1] = "$" THEN dollar_body(txt, i + 2, "", << >>)
    ELSE Placeholder(txt, i,
                     peeking_take_while(txt, i + 1, Letters \cup AsciiDigits \cup {"_"}))

\* Tokenizer::next_token at index i <= Len(txt)
next_token(txt, i) ==
    IF txt[i] \in {" ", "\n"} THEN Tok("Whitespace", <<txt[i]>>, FALSE, i + 1)
    ELSE IF txt[i] = "'" THEN tokenize_quoted_string(txt, i)
    ELSE IF txt[i] = "\"" THEN parse_quoted_ident(txt, i)
    ELSE IF txt[i] \in AsciiDigits \cup {"."} THEN tokenize_number(txt, i)
    ELSE IF txt[i] = "-" THEN tokenize_minus(txt, i)
    ELSE IF txt[i] = ";" THEN Tok("SemiColon", <<";">>, FALSE, i + 1)
    ELSE IF txt[i] = "$" THEN tokenize_dollar_preceded_value(txt, i)
    ELSE IF txt[i] \in IdentifierStart THEN tokenize_word(txt, i)
    ELSE Tok("Char", <<txt[i]>>, FALSE, i + 1)

StartLocation == [line |-> 1, column |-> 1]

\* State::next over the chars txt[i .. j-1]
RECURSIVE advance(_, _, _, _)
advance(txt, i, j, location) ==
    IF i >= j THEN location
    ELSE advance(txt, i + 1, j,
                 IF txt[i] = "\n" THEN [line |-> location.line + 1, column |-> 1]
                 ELSE [line |-> location.line, column |-> location.column + 1])

\* TokenWithLocation { token, location }; from and to are the span of the
\* token in txt, which the properties refer to
TokenWithLocation(token, location, i) ==
    [kind |-> token.kind, value |-> token.value, quoted |-> token.quoted,
     line |-> location.line, column |-> location.column,
     from |-> i, to |-> token.next - 1]

RECURSIVE tokenize_from(_, _, _, _)
push_token(txt, i, location, toks, token) ==
    IF token.err # "" THEN [err |-> token.err, tokens |-> << >>]
    ELSE tokenize_from(txt, token.next, advance(txt, i, token.next, location),
                       Append(toks, TokenWithLocation(token, location, i)))

tokenize_from(txt, i, location, toks) ==
    IF i > Len(txt) THEN [err |-> "", tokens |-> toks]
    ELSE push_token(txt, i, location, toks, next_token(txt, i))

tokenize_with_location(txt) == tokenize_from(txt, 1, StartLocation, << >>)

(***************************************************************************)
(* SQL rewriter (rewrite_sql.rs).  A schemas map is the set of its         *)
(* entries [orig, dest], one per key.                                      *)
(***************************************************************************)
contains_key(map, key) == \E e \in map : e.orig = key

get(map, key) == (CHOOSE e \in map : e.orig = key).dest

\* sql.split('\n').collect()
RECURSIVE split(_, _, _)
split(txt, i, line) ==
    IF i > Len(txt) THEN <<line>>
    ELSE IF txt[i] = "\n" THEN <<line>> \o split(txt, i + 1, << >>)
    ELSE split(txt, i + 1, Append(line, txt[i]))

\* the sum of lines[i].chars().count() for the first n lines
RECURSIVE chars_count(_, _)
chars_count(lines, n) ==
    IF n = 0 THEN 0 ELSE chars_count(lines, n - 1) + Len(lines[n])

\* mutant: the opening quote of a quoted identifier is not skipped
location_to_idx_noquote(lines, twl) ==
    chars_count(lines, twl.line - 1) + (twl.line - 1) + (twl.column - 1)
        + (IF twl.kind = "SingleQuotedString" THEN 1 ELSE 0)

location_to_idx(lines, twl) ==
    chars_count(lines, twl.line - 1) + (twl.line - 1) + (twl.column - 1)
        + (IF twl.kind = "Word" THEN (IF twl.quoted THEN 1 ELSE 0)
           ELSE IF twl.kind = "SingleQuotedString" THEN 1 ELSE 0)

\* mutant: any following token will do
next_is_period_any(toks, i) == i < Len(toks)

\* i < tokens.len() - 1 and tokens[i + 1] is Token::Period
next_is_period(toks, i) == i < Len(toks) /\ toks[i + 1].kind = "Period"

\* the token at i is pushed to to_replace
selected(map, toks, i, qualified_only, single_quoted_only) ==
    /\ qualified_only => next_is_period(toks, i)
    /\ toks[i].kind = (IF single_quoted_only THEN "SingleQuotedString" ELSE "Word")
    /\ contains_key(map, toks[i].value)

\* mutant: the tokens are visited from the last to the first
RECURSIVE to_replace_backwards(_, _, _, _, _, _, _)
to_replace_backwards(map, lines, toks, i, qualified_only, single_quoted_only, acc) ==
    IF i > Len(toks) THEN acc
    ELSE to_replace_backwards(map, lines, toks, i + 1, qualified_only, single_quoted_only,
             IF selected(map, toks, i, qualified_only, single_quoted_only)
             THEN <<[schema_orig |-> toks[i].value,
                     schema_replaced |-> get(map, toks[i].value),
                     start_idx |-> location_to_idx(lines, toks[i])]>> \o acc
             ELSE acc)

RECURSIVE to_replace(_, _, _, _, _, _, _)
to_replace(map, lines, toks, i, qualified_only, single_quoted_only, acc) ==
    IF i > Len(toks) THEN acc
    ELSE to_replace(map, lines, toks, i + 1, qualified_only, single_quoted_only,
             IF selected(map, toks, i, qualified_only, single_quoted_only)
             THEN Append(acc, [schema_orig |-> toks[i].value,
                               schema_replaced |-> get(map, toks[i].value),
                               start_idx |-> location_to_idx(lines, toks[i])])
             ELSE acc)

\* orig.iter().skip(start_idx).take(count).collect()
skip_take(orig, start_idx, count) ==
    SubSeq(orig, start_idx + 1,
           IF start_idx + count > Len(orig) THEN Len(orig) ELSE start_idx + count)

SqlErr(msg) == [ok |-> FALSE, err |-> msg, sql |-> << >>]

\* mutant: the chars at start_idx are not compared with schema_orig
RECURSIVE copy_replaced_unchecked(_, _, _, _, _)
copy_replaced_unchecked(orig, reps, k, last_idx, rewritten) ==
    IF k > Len(reps)
    THEN [ok |-> TRUE, err |-> "", sql |-> rewritten \o SubSeq(orig, last_idx + 1, Len(orig))]
    ELSE copy_replaced_unchecked(orig, reps, k + 1,
                       reps[k].start_idx + Len(reps[k].schema_orig),
                       rewritten \o SubSeq(orig, last_idx + 1, reps[k].start_idx)
                                 \o reps[k].schema_replaced)

\* the copy loop over to_replace from its k-th element, then the tail
RECURSIVE copy_replaced(_, _, _, _, _)
copy_replaced(orig, reps, k, last_idx, rewritten) ==
    IF k > Len(reps)
    THEN [ok |-> TRUE, err |-> "", sql |-> rewritten \o SubSeq(orig, last_idx + 1, Len(orig))]
    ELSE IF skip_take(orig, reps[k].start_idx, Len(reps[k].schema_orig))
                # reps[k].schema_orig
         THEN SqlErr("Replace error")
    ELSE copy_replaced(orig, reps, k + 1,
                       reps[k].start_idx + Len(reps[k].schema_orig),
                       rewritten \o SubSeq(orig, last_idx + 1, reps[k].start_idx)
                                 \o reps[k].schema_replaced)

\* mutant: the copy starts after the first char
rewrite_tokens_skipfirst(map, txt, qualified_only, single_quoted_only, tokenized) ==
    IF tokenized.err # "" THEN SqlErr("Tokenizer error")
    ELSE copy_replaced(txt,
                       to_replace(map, split(txt, 1, << >>), tokenized.tokens, 1,
                                  qualified_only, single_quoted_only, << >>),
                       1, 1, << >>)

\* rewrite_schema_in_sql_internal once the tokenizer has returned tokenized
rewrite_tokens(map, txt, qualified_only, single_quoted_only, tokenized) ==
    IF tokenized.err # "" THEN SqlErr("Tokenizer error")
    ELSE copy_replaced(txt,
                       to_replace(map, split(txt, 1, << >>), tokenized.tokens, 1,
                                  qualified_only, single_quoted_only, << >>),
                       1, 0, << >>)

rewrite_schema_in_sql_internal(map, txt, qualified_only, single_quoted_only) ==
    rewrite_tokens(map, txt, qualified_only, single_quoted_only,
                   tokenize_with_location(txt))

rewrite_schema_in_sql(map, txt) ==
    rewrite_schema_in_sql_internal(map, txt, TRUE, FALSE)

rewrite_schema_in_sql_unqualified(map, txt) ==
    rewrite_schema_in_sql_internal(map, txt, FALSE, FALSE)

rewrite_schema_in_sql_single_quoted(map, txt) ==
    rewrite_schema_in_sql_internal(map, txt, FALSE, TRUE)

(***************************************************************************)
(* Scenario 3: one SQL string, made of at most MaxPieces pieces, and one   *)
(* schemas map are given to each of the three rewriters.                   *)
(***************************************************************************)
MaxPieces == 3

Pieces ==
    { <<"f", "o">>, <<"g">>, <<".">>, <<" ">>, <<"\n">>, <<"1">>, <<"U+00A5">>,
      <<"'">>,
      <<"'", "f", "o", "'">>,
      <<"'", "f", "o", ".", "g", "'">>,
      <<"\"", "f", "o", "\"">>,
      <<"\"", "f", "\"", "\"", "o", "\"">>,
      <<"-", "-", "f", "o", "\n">>,
      <<"$", "$", "f", "o", "$", "$">> }

RECURSIVE SqlOfPieces(_)
SqlOfPieces(n) ==
    IF n = 0 THEN {<< >>}
    ELSE SqlOfPieces(n - 1) \cup {s \o p : s \in SqlOfPieces(n - 1), p \in Pieces}

SqlSamples == SqlOfPieces(MaxPieces)

SchemaSamples ==
    { {},
      {[orig |-> <<"f", "o">>, dest |-> <<"g", "g", "g">>]},
      {[orig |-> <<"f", "\"", "o">>, dest |-> <<"g">>],
       [orig |-> <<"1">>, dest |-> <<"f", "o">>],
       [orig |-> <<"g">>, dest |-> <<"f", "o">>]} }

InitSql ==
    /\ overflow_checks = TRUE
    /\ pc = "sql"
    /\ sql \in SqlSamples
    /\ schemas \in SchemaSamples
    /\ tokens = << >>
    /\ result = NoResult
    /\ reader = NewReader(<< >>) /\ writer = NewWriter
    /\ IdlePrim /\ IdleToc /\ IdleRen /\ IdleFs

\* the string is given to one of the three rewriters; tokens keeps what the
\* tokenizer returned for it
RewriteQualified ==
    /\ pc = "sql"
    /\ tokens' = tokenize_with_location(sql).tokens
    /\ result' = rewrite_schema_in_sql(schemas, sql)
    /\ pc' = "qualified"
    /\ UNCHANGED <<overflow_checks, reader, writer, sql, schemas, primVars, tocVars, renVars, fsVars>>

RewriteUnqualified ==
    /\ pc = "sql"
    /\ tokens' = tokenize_with_location(sql).tokens
    /\ result' = rewrite_schema_in_sql_unqualified(schemas, sql)
    /\ pc' = "unqualified"
    /\ UNCHANGED <<overflow_checks, reader, writer, sql, schemas, primVars, tocVars, renVars, fsVars>>

RewriteSingleQuoted ==
    /\ pc = "sql"
    /\ tokens' = tokenize_with_location(sql).tokens
    /\ result' = rewrite_schema_in_sql_single_quoted(schemas, sql)
    /\ pc' = "single_quoted"
    /\ UNCHANGED <<overflow_checks, reader, writer, sql, schemas, primVars, tocVars, renVars, fsVars>>

NextSql == RewriteQualified \/ RewriteUnqualified \/ RewriteSingleQuoted

SpecSql == InitSql /\ [][NextSql]_vars

(***************************************************************************)
(* Claims about the SQL rewriter (checked under SpecSql)                   *)
(***************************************************************************)
RECURSIVE Concat(_)
Concat(texts) == IF texts = << >> THEN << >> ELSE Head(texts) \o Concat(Tail(texts))

\* the text of the k-th token in the SQL string
TokenText(k) == SubSeq(sql, tokens[k].from, tokens[k].to)

Key(value) == \E e \in schemas : e.orig = value

Dest(value) == (CHOOSE e \in schemas : e.orig = value).dest

\* the k-th token with its value replaced by text, quotes kept
Quote(k) ==
    IF tokens[k].kind = "SingleQuotedString" THEN <<"'">>
    ELSE IF tokens[k].kind = "Word" /\ tokens[k].quoted THEN <<"\"">>
    ELSE << >>

WithValue(k, text) == Quote(k) \o text \o Quote(k)

\* the text of the k-th token is not its value in its quotes (a doubled quote)
Escaped(k) == TokenText(k) # WithValue(k, tokens[k].value)

FollowedByPeriod(k) == k < Len(tokens) /\ tokens[k + 1].kind = "Period"

QualifiedMatch(k) ==
    tokens[k].kind = "Word" /\ Key(tokens[k].value) /\ FollowedByPeriod(k)

UnqualifiedMatch(k) == tokens[k].kind = "Word" /\ Key(tokens[k].value)

\* the rewriter ended in one of three ways: the tokenizer failed; a token to
\* replace was written with a doubled quote and the rewrite was abandoned;
\* or the string returned is the text of the tokens, each in its place, with
\* the value of every token that matches replaced by its destination
Outcome(matches, texts) ==
    \/ result.err = "Tokenizer error"
    \/ /\ result.err = "Replace error"
       /\ \E k \in matches : Escaped(k)
    \/ /\ result.ok
       /\ \A k \in matches : ~Escaped(k)
       /\ result.sql = Concat(texts)

C9_UnqualifiedRule ==
    pc = "unqualified" =>
        Outcome({k \in 1..Len(tokens) : UnqualifiedMatch(k)},
                [k \in 1..Len(tokens) |->
                    IF UnqualifiedMatch(k) THEN WithValue(k, Dest(tokens[k].value))
                    ELSE TokenText(k)])

\* a matching word not followed by a period was replaced next to a token of
\* another kind whose value is a key
C9_Witness ==
    /\ pc = "unqualified" /\ result.ok /\ result.sql # sql
    /\ \E k \in 1..Len(tokens) : UnqualifiedMatch(k) /\ ~FollowedByPeriod(k)
    /\ \E k \in 1..Len(tokens) :
          /\ tokens[k].kind \in {"SingleQuotedString", "DollarQuotedString", "Number"}
          /\ Key(tokens[k].value)

\* value begins with prefix followed by "."
StartsWith(value, prefix) ==
    /\ Len(value) > Len(prefix)
    /\ SubSeq(value, 1, Len(prefix)) = prefix
    /\ value[Len(prefix) + 1] = "."

PrefixMatch(k) ==
    /\ tokens[k].kind = "SingleQuotedString"
    /\ \E e \in schemas : StartsWith(tokens[k].value, e.orig)

PrefixReplaced(k) ==
    LET e == CHOOSE x \in schemas : StartsWith(tokens[k].value, x.orig)
    IN  WithValue(k, e.dest \o SubSeq(tokens[k].value, Len(e.orig) + 1,
                                      Len(tokens[k].value)))

\* C10: in the single-quoted mode a single-quoted string is rewritten exactly
\* when its value begins with a key of schemas followed by ".", and then that
\* prefix alone is replaced by the destination.
C10_PrefixReplaced ==
    pc = "single_quoted" =>
        \/ ~result.ok
        \/ result.sql = Concat([k \in 1..Len(tokens) |->
                                   IF PrefixMatch(k) THEN PrefixReplaced(k)
                                   ELSE TokenText(k)])

\* what the single-quoted mode does: a single-quoted string is replaced
\* exactly when its whole value is a key of schemas
ExactMatch(k) == tokens[k].kind = "SingleQuotedString" /\ Key(tokens[k].value)

C10_WholeLiteral ==
    pc = "single_quoted" =>
        Outcome({k \in 1..Len(tokens) : ExactMatch(k)},
                [k \in 1..Len(tokens) |->
                    IF ExactMatch(k) THEN WithValue(k, Dest(tokens[k].value))
                    ELSE TokenText(k)])

\* no token of the string is selected by the mode that was run
NoneSelected ==
    /\ pc \in {"qualified", "unqualified", "single_quoted"}
    /\ \A k \in 1..Len(tokens) :
          /\ pc = "qualified" => ~QualifiedMatch(k)
          /\ pc = "unqualified" => ~UnqualifiedMatch(k)
          /\ pc = "single_quoted" => ~ExactMatch(k)

\* C11 as stated: for every schemas map and every input string in which no
\* token is selected by the mode (every input when schemas is empty), the
\* rewriter returns successfully a string equal to the input.
C11_InputReturned == NoneSelected => result.ok /\ result.sql = sql

\* C11 as amended: for every schemas map and every input string that the
\* tokenizer accepts and in which no token is selected by the mode, the
\* rewriter returns successfully a string equal to the input, char for char.
C11_TokenizedReturned ==
    NoneSelected /\ result.err # "Tokenizer error" => result.ok /\ result.sql = sql

\* a string of two lines with a comment and a non-ASCII char, whose comment
\* holds a key of schemas, was returned as it was given
C11_Witness ==
    /\ NoneSelected /\ result.ok /\ result.sql = sql
    /\ schemas # {}
    /\ \E k \in 1..Len(tokens) : tokens[k].line = 2
    /\ \E k \in 1..Len(tokens) : tokens[k].value = <<"U+00A5">>
    /\ \E k \in 1..Len(tokens) :
          tokens[k].kind = "Whitespace" /\ Len(tokens[k].value) > 1

(***************************************************************************)
(* Catalog reordering.  The pass is described in the specification of the  *)
(* rename (section "Catalog reordering"); an entry is [desc, tag] here.    *)
(***************************************************************************)
sysdatabases == "babelfish_sysdatabases"

\* mutant: babelfish_view_def is not tracked
Tracked_three ==
    <<"babelfish_extended_properties", "babelfish_function_ext",
      "babelfish_namespace_ext">>

\* the four tags whose entries must come after babelfish_sysdatabases
Tracked ==
    <<"babelfish_extended_properties", "babelfish_function_ext",
      "babelfish_namespace_ext", "babelfish_view_def">>

TrackedTags == {sysdatabases} \cup {Tracked[k] : k \in 1..Len(Tracked)}

\* the recorded position of each tracked tag among the TABLE DATA entries of
\* list from its i-th entry on; 0 means not present
RECURSIVE record_positions(_, _, _)
record_positions(list, i, pos) ==
    IF i > Len(list) THEN pos
    ELSE record_positions(list, i + 1,
             IF list[i].desc = "TABLE DATA" /\ list[i].tag \in TrackedTags
             THEN [pos EXCEPT ![list[i].tag] = i]
             ELSE pos)

\* mutant: the tracked positions are swapped, the entries are not
swap_tracked_positions_only(st, tag) ==
    [list |-> st.list,
     pos |-> [st.pos EXCEPT ![tag] = st.pos[sysdatabases],
                            ![sysdatabases] = st.pos[tag]],
     swapped |-> TRUE]

\* the two entries are swapped in the list, and so are the tracked positions
swap_tracked(st, tag) ==
    [list |-> [st.list EXCEPT ![st.pos[tag]] = st.list[st.pos[sysdatabases]],
                              ![st.pos[sysdatabases]] = st.list[st.pos[tag]]],
     pos |-> [st.pos EXCEPT ![tag] = st.pos[sysdatabases],
                            ![sysdatabases] = st.pos[tag]],
     swapped |-> TRUE]

\* one scan of the tracked positions, from the k-th on
RECURSIVE scan_tracked(_, _)
scan_tracked(st, k) ==
    IF k > Len(Tracked) THEN st
    ELSE scan_tracked(IF /\ st.pos[Tracked[k]] # 0
                         /\ st.pos[Tracked[k]] < st.pos[sysdatabases]
                      THEN swap_tracked(st, Tracked[k])
                      ELSE st,
                      k + 1)

\* scans are repeated until one makes no swap
RECURSIVE reorder_scans(_)
scan_again(st) == IF st.swapped THEN reorder_scans(st) ELSE st

reorder_scans(st) == scan_again(scan_tracked([st EXCEPT !.swapped = FALSE], 1))

\* babelfish_sysdatabases is required
reorder_recorded(list, pos) ==
    IF pos[sysdatabases] = 0
    THEN [err |-> "babelfish_sysdatabases not found", list |-> list]
    ELSE [err |-> "",
          list |-> reorder_scans([list |-> list, pos |-> pos, swapped |-> FALSE]).list]

reorder_catalogs(list) ==
    reorder_recorded(list, record_positions(list, 1, [t \in TrackedTags |-> 0]))

(***************************************************************************)
(* Scenario 4: a list of at most MaxToc different entries is reordered.    *)
(***************************************************************************)
MaxToc == 5

CatalogTags ==
    {"babelfish_sysdatabases", "babelfish_extended_properties",
     "babelfish_function_ext", "babelfish_namespace_ext", "babelfish_view_def"}

TocPool ==
    [desc : {"TABLE DATA"}, tag : CatalogTags]
        \cup {[desc |-> "TABLE", tag |-> sysdatabases],
              [desc |-> "TABLE DATA", tag |-> "t1"]}

InList(e, list) == \E i \in 1..Len(list) : list[i] = e

ExtendLists(lists, n) ==
    lists \cup {Append(x[1], x[2]) :
                   x \in {y \in lists \X TocPool : Len(y[1]) = n - 1 /\ ~InList(y[2], y[1])}}

RECURSIVE TocLists(_)
TocLists(n) == IF n = 0 THEN {<< >>} ELSE ExtendLists(TocLists(n - 1), n)

IdleCtx == ctx = << >>

InitReorder ==
    /\ overflow_checks = TRUE
    /\ pc = "toc"
    /\ toc_in \in TocLists(MaxToc)
    /\ toc = toc_in
    /\ ret = "none"
    /\ IdleCtx
    /\ reader = NewReader(<< >>) /\ writer = NewWriter
    /\ IdlePrim /\ IdleToc /\ IdleSql /\ IdleFs

ReorderDone(r) ==
    /\ toc' = r.list
    /\ ret' = r.err
    /\ pc' = IF r.err = "" THEN "reordered" ELSE "failed"

ReorderCatalogs ==
    /\ pc = "toc"
    /\ ReorderDone(reorder_catalogs(toc))
    /\ UNCHANGED <<overflow_checks, reader, writer, ctx, toc_in, primVars, tocVars,
                   sqlVars, fsVars>>

NextReorder == ReorderCatalogs

SpecReorder == InitReorder /\ [][NextReorder]_vars

\* the position in toc of the TABLE DATA entry tagged tag, 0 when absent
PositionOf(tag) ==
    IF InList([desc |-> "TABLE DATA", tag |-> tag], toc)
    THEN CHOOSE i \in 1..Len(toc) : toc[i] = [desc |-> "TABLE DATA", tag |-> tag]
    ELSE 0

IsTracked(e) == e.desc = "TABLE DATA" /\ e.tag \in CatalogTags

\* C12: for every entry list with a TABLE DATA entry tagged
\* babelfish_sysdatabases, after the reordering that entry is before each of
\* babelfish_extended_properties, babelfish_function_ext,
\* babelfish_namespace_ext and babelfish_view_def that is present; the list is
\* a permutation of the input, and every entry that is not one of the five
\* tracked TABLE DATA entries is where it was.
C12_SysdatabasesFirst ==
    /\ pc \in {"reordered", "failed"} =>
         (InList([desc |-> "TABLE DATA", tag |-> sysdatabases], toc_in)
            <=> pc = "reordered")
    /\ pc = "reordered" =>
         /\ \A tag \in {"babelfish_extended_properties", "babelfish_function_ext",
                        "babelfish_namespace_ext", "babelfish_view_def"} :
               PositionOf(tag) # 0 => PositionOf(sysdatabases) < PositionOf(tag)
         /\ Len(toc) = Len(toc_in)
         /\ \A e \in TocPool : InList(e, toc) <=> InList(e, toc_in)
         /\ \A i \in 1..Len(toc_in) : ~IsTracked(toc_in[i]) => toc[i] = toc_in[i]

\* babelfish_sysdatabases was the last of five entries, after the four other
\* tracked ones, and is the first now
C12_Witness ==
    /\ pc = "reordered"
    /\ Len(toc_in) = 5
    /\ toc_in[5] = [desc |-> "TABLE DATA", tag |-> sysdatabases]
    /\ \A i \in 1..4 : IsTracked(toc_in[i])
    /\ toc[1] = [desc |-> "TABLE DATA", tag |-> sysdatabases]

(***************************************************************************)
(* The rename of lib.rs.  Text is a sequence of chars; an optional field   *)
(* of an entry is [some, chars].  A map is the set of its entries          *)
(* [orig, dest].  The state threaded through the steps of one entry is     *)
(* [ctx, te, err]: a step that finds err set does nothing, as the `?`      *)
(* after each call does.                                                   *)
(***************************************************************************)
\* str::len(): the number of bytes of the UTF-8 encoding
RECURSIVE str_len(_)
str_len(st) ==
    IF st = << >> THEN 0
    ELSE (IF Head(st) = "U+00A5" THEN 2 ELSE 1) + str_len(Tail(st))

starts_with(st, prefix) ==
    Len(st) >= Len(prefix) /\ SubSeq(st, 1, Len(prefix)) = prefix

ends_with(st, suffix) ==
    Len(st) >= Len(suffix) /\ SubSeq(st, Len(st) - Len(suffix) + 1, Len(st)) = suffix

\* st.chars().take(n).collect()
chars_take(st, n) == SubSeq(st, 1, IF n > Len(st) THEN Len(st) ELSE n)

\* st.chars().skip(n).collect()
chars_skip(st, n) == IF n >= Len(st) THEN << >> ELSE SubSeq(st, n + 1, Len(st))

Some(chars) == [some |-> TRUE, chars |-> chars]

binopt_to_string(bin_opt) == IF bin_opt.some THEN bin_opt.chars ELSE << >>

insert(map, key, value) ==
    {e \in map : e.orig # key} \cup {[orig |-> key, dest |-> value]}

\* the loop of location_to_idx over the first n lines
RECURSIVE lib_lines_len(_, _)
lib_lines_len(lines, n) ==
    IF n = 0 THEN 0
    ELSE lib_lines_len(lines, n - 1) + str_len(lines[n]) + (IF n > 1 THEN 1 ELSE 0)

lib_location_to_idx(lines, line_no, column_no) ==
    lib_lines_len(lines, line_no - 1) + (column_no - 1)

\* to_replace after the loop over tokens, with the start_idx of each element
RECURSIVE lib_to_replace(_, _, _, _, _, _)
lib_to_replace(map, lines, toks, i, qualified_only, acc) ==
    IF i > Len(toks) THEN acc
    ELSE lib_to_replace(map, lines, toks, i + 1, qualified_only,
             IF /\ qualified_only => (i < Len(toks) /\ toks[i + 1].kind = "Period")
                /\ toks[i].kind = "Word"
                /\ contains_key(map, toks[i].value)
             THEN Append(acc, [schema_orig |-> toks[i].value,
                               schema_replaced |-> get(map, toks[i].value),
                               start_idx |-> lib_location_to_idx(lines, toks[i].line,
                                                                 toks[i].column)])
             ELSE acc)

\* the copy loop over to_replace from its k-th element, then the tail;
\* orig[i] panics when i is not an index of orig
RECURSIVE lib_copy_replaced(_, _, _, _, _)
lib_copy_replaced(orig, reps, k, last_idx, rewritten) ==
    IF k > Len(reps)
    THEN [ok |-> TRUE, err |-> "",
          sql |-> rewritten \o (IF last_idx >= Len(orig) THEN << >>
                                ELSE SubSeq(orig, last_idx + 1, Len(orig)))]
    ELSE IF last_idx < reps[k].start_idx /\ reps[k].start_idx > Len(orig)
         THEN SqlErr("panic: index out of bounds")
    ELSE lib_copy_replaced(orig, reps, k + 1,
                           reps[k].start_idx + str_len(reps[k].schema_orig),
                           rewritten
                             \o (IF last_idx >= reps[k].start_idx THEN << >>
                                 ELSE SubSeq(orig, last_idx + 1, reps[k].start_idx))
                             \o reps[k].schema_replaced)

lib_replace_tokens(map, txt, qualified_only, tokenized) ==
    IF tokenized.err # "" THEN SqlErr("Tokenizer error")
    ELSE lib_copy_replaced(txt,
                           lib_to_replace(map, split(txt, 1, << >>), tokenized.tokens, 1,
                                          qualified_only, << >>),
                           1, 0, << >>)

replace_schema_in_sql(map, txt, qualified_only) ==
    lib_replace_tokens(map, txt, qualified_only, tokenize_with_location(txt))

opt_of_sql(r) == [err |-> r.err, v |-> Some(r.sql)]

replace_schema_opt_some(map, sql_opt, qualified_only) ==
    IF ~sql_opt.some THEN [err |-> "", v |-> Some(<< >>)]
    ELSE opt_of_sql(replace_schema_in_sql(map, binopt_to_string(sql_opt), qualified_only))

replace_schema_opt(map, sql_opt, qualified_only) ==
    IF ~sql_opt.some THEN [err |-> "", v |-> sql_opt]
    ELSE opt_of_sql(replace_schema_in_sql(map, binopt_to_string(sql_opt), qualified_only))

\* te.field = replace_schema_opt(..)?
assign_field(st, field, r) ==
    IF r.err # "" THEN [st EXCEPT !.err = r.err]
    ELSE [st EXCEPT !.te = [st.te EXCEPT ![field] = r.v]]

replace_field(st, field, qualified_only) ==
    IF st.err # "" THEN st
    ELSE assign_field(st, field,
                      replace_schema_opt(st.ctx.schemas, st.te[field], qualified_only))

replace_create_stmt(st) == replace_field(st, "create_stmt", TRUE)

replace_create_stmt_unqualified(st) == replace_field(st, "create_stmt", FALSE)

replace_drop_stmt(st) == replace_field(st, "drop_stmt", TRUE)

replace_drop_stmt_unqualified(st) == replace_field(st, "drop_stmt", FALSE)

replace_tag(st) == replace_field(st, "tag", TRUE)

replace_tag_unqualified(st) == replace_field(st, "tag", FALSE)

replace_owner(st) ==
    IF st.err # "" THEN st
    ELSE IF contains_key(st.ctx.owners, binopt_to_string(st.te.owner))
    THEN [st EXCEPT !.te = [st.te EXCEPT
              !.owner = Some(get(st.ctx.owners, binopt_to_string(st.te.owner)))]]
    ELSE st

replace_namespace(st) ==
    IF st.err # "" THEN st
    ELSE IF contains_key(st.ctx.schemas, binopt_to_string(st.te.namespace))
    THEN [st EXCEPT !.te = [st.te EXCEPT
              !.namespace = Some(get(st.ctx.schemas, binopt_to_string(st.te.namespace)))]]
    ELSE st

dbo_suffix == <<"_", "d", "b", "o">>

\* modify_schema_entry: the name of the original database is taken from the
\* first schema
with_orig_dbname(st, orig_dbname) ==
    [st EXCEPT !.ctx = [st.ctx EXCEPT
        !.orig_dbname = orig_dbname,
        !.orig_dbname_with_underscore = orig_dbname \o <<"_">>]]

schema_orig_dbname(st, schema_orig) ==
    IF st.ctx.orig_dbname # << >> THEN st
    ELSE IF ends_with(schema_orig, dbo_suffix)
    THEN with_orig_dbname(st, chars_take(schema_orig,
                                         str_len(schema_orig) - str_len(dbo_suffix)))
    ELSE [st EXCEPT !.err = "Cannot determine schema name"]

\* format!("{}_{}", ctx.dest_dbname, suffix) for the suffix of name
dest_name(c, name) ==
    c.dest_dbname \o <<"_">>
        \o chars_skip(name, str_len(c.orig_dbname_with_underscore))

\* modify_schema_entry: the schema is put into ctx.schemas and the tag renamed
schema_renamed(st, schema_orig) ==
    IF st.err # "" THEN st
    ELSE IF ~starts_with(schema_orig, st.ctx.orig_dbname_with_underscore)
    THEN [st EXCEPT !.err = "Unexpected schema name"]
    ELSE [st EXCEPT
            !.ctx = [st.ctx EXCEPT
                !.schemas = insert(st.ctx.schemas, schema_orig, dest_name(st.ctx, schema_orig))],
            !.te = [st.te EXCEPT !.tag = Some(dest_name(st.ctx, schema_orig))]]

\* modify_schema_entry: the owner is put into ctx.owners and renamed
owner_renamed(st, owner_orig) ==
    IF st.err # "" THEN st
    ELSE IF starts_with(owner_orig, st.ctx.orig_dbname_with_underscore)
    THEN [st EXCEPT
            !.ctx = [st.ctx EXCEPT
                !.owners = insert(st.ctx.owners, owner_orig, dest_name(st.ctx, owner_orig))],
            !.te = [st.te EXCEPT !.owner = Some(dest_name(st.ctx, owner_orig))]]
    ELSE st

modify_schema_entry(st) ==
    replace_drop_stmt_unqualified(
        replace_create_stmt_unqualified(
            owner_renamed(
                schema_renamed(schema_orig_dbname(st, binopt_to_string(st.te.tag)),
                               binopt_to_string(st.te.tag)),
                binopt_to_string(st.te.owner))))

modify_schema_acl_entry(st) ==
    replace_owner(replace_create_stmt_unqualified(replace_tag_unqualified(st)))

modify_acl_entry(st) ==
    replace_owner(replace_namespace(replace_create_stmt(replace_tag(st))))

modify_domain_entry(st) ==
    replace_owner(replace_namespace(replace_drop_stmt(replace_create_stmt(st))))

modify_function_entry(st) ==
    replace_owner(replace_namespace(replace_drop_stmt(replace_create_stmt(replace_tag(st)))))

modify_table_entry(st) ==
    replace_owner(replace_namespace(replace_drop_stmt(replace_create_stmt(st))))

modify_procedure_entry(st) ==
    replace_owner(replace_namespace(replace_drop_stmt(replace_create_stmt(replace_tag(st)))))

SCHEMA_ == <<"S", "C", "H", "E", "M", "A", " ">>

modify_toc_entry(st) ==
    IF st.te.description = "SCHEMA" THEN modify_schema_entry(st)
    ELSE IF st.te.description = "ACL"
         THEN IF starts_with(binopt_to_string(st.te.tag), SCHEMA_)
              THEN modify_schema_acl_entry(st)
              ELSE modify_acl_entry(st)
    ELSE IF st.te.description = "DOMAIN" THEN modify_domain_entry(st)
    ELSE IF st.te.description = "FUNCTION" THEN modify_function_entry(st)
    ELSE IF st.te.description = "TABLE" THEN modify_table_entry(st)
    ELSE IF st.te.description = "PROCEDURE" THEN modify_procedure_entry(st)
    ELSE st

\* TocCtx::new(dbname)
TocCtx_new(dbname) ==
    [orig_dbname |-> << >>, orig_dbname_with_underscore |-> << >>,
     dest_dbname |-> dbname, schemas |-> {}, owners |-> {}, catalog_files |-> << >>]

(***************************************************************************)
(* rewrite_toc of lib.rs.  The dump directory is fs: file name -> content, *)
(* Absent for a name that is not there.  The content of a TOC file is      *)
(* [count, entries]: the entry count after the header and the entries that *)
(* follow it (the header copy is Scenario 2).  The content of the side     *)
(* file is what has been handed to its writer; the flush at the drop of a  *)
(* writer, which may fail unnoticed, is modelled in Scenario 6.            *)
(***************************************************************************)
Absent == [count |-> -1, entries |-> << >>]

TocFile(count, list) == [count |-> count, entries |-> list]

\* File::create(&toc_dest_path), copy_header, copy_int
toc_created(files, src) ==
    [files EXCEPT !["toc_rewritten.dat"] = TocFile(src.count, << >>)]

\* write_toc_entry(&mut writer, &te)
toc_entry_written(files, te) ==
    [files EXCEPT !["toc_rewritten.dat"] =
        TocFile(files["toc_rewritten.dat"].count,
                Append(files["toc_rewritten.dat"].entries, te))]

\* read_toc_entry(&mut reader): the k-th entry of the file, or the end of it
read_toc_entry(src, k, c) ==
    IF k > Len(src.entries) THEN [ctx |-> c, te |-> << >>, err |-> UnexpectedEof]
    ELSE [ctx |-> c, te |-> src.entries[k], err |-> ""]

modify_read(st) == IF st.err # "" THEN st ELSE modify_toc_entry(st)

(***************************************************************************)
(* Scenario 5: rewrite_toc is called for a dump directory that holds a     *)
(* toc.dat of at most MaxRen entries, with a destination name.             *)
(***************************************************************************)
MaxRen == 2

fo_dbo == <<"f", "o", "_", "d", "b", "o">>
fo_g == <<"f", "o", "_", "g">>
fo_dbo_g == <<"f", "o", "_", "d", "b", "o", ".", "g">>

dat_5976 == <<"5", "9", "7", "6", ".", "d", "a", "t">>

babelfish_sysdatabases ==
    <<"b", "a", "b", "e", "l", "f", "i", "s", "h", "_",
      "s", "y", "s", "d", "a", "t", "a", "b", "a", "s", "e", "s">>

\* a TocEntry; the fields the arguments do not name are the same in every
\* sample, except the filename, which only a TABLE DATA entry has
Te(description, tag, namespace, owner, create_stmt, drop_stmt, copy_stmt) ==
    [dump_id |-> 7, had_dumper |-> 1,
     table_oid |-> Some(<<"1">>), catalog_oid |-> Some(<<"0">>),
     tag |-> tag, description |-> description, section |-> 3,
     create_stmt |-> create_stmt, drop_stmt |-> drop_stmt, copy_stmt |-> copy_stmt,
     namespace |-> namespace, tablespace |-> Some(<< >>), tableam |-> NoneString,
     owner |-> owner, table_with_oids |-> Some(<<"f">>),
     deps |-> <<fo_dbo, << >> >>,
     filename |-> IF description = "TABLE DATA" THEN Some(dat_5976) ELSE NoneString]

SchemaPool ==
    { Te("SCHEMA", Some(fo_dbo), NoneString, Some(fo_dbo), Some(fo_dbo), Some(fo_dbo), NoneString),
      Te("SCHEMA", Some(fo_dbo), NoneString, Some(<<"o">>), Some(fo_dbo), NoneString, NoneString),
      Te("SCHEMA", Some(fo_g), NoneString, Some(fo_g), Some(fo_g), Some(fo_g), NoneString),
      Te("SCHEMA", Some(<<"g">>), NoneString, Some(<<"g">>), Some(<<"g">>), NoneString, NoneString),
      Te("SCHEMA", Some(dbo_suffix), NoneString, Some(fo_dbo), NoneString, NoneString, NoneString),
      Te("SCHEMA", Some(<<"U+00A5">> \o dbo_suffix), NoneString, NoneString, NoneString,
         NoneString, NoneString) }

ObjectPool ==
    { Te("TABLE", Some(fo_dbo_g), Some(fo_dbo), Some(fo_dbo), Some(fo_dbo_g),
         Some(fo_dbo_g), Some(fo_dbo_g)),
      Te("TABLE", Some(<<"g">>), Some(fo_g), Some(<<"o">>), Some(<<"'">>), NoneString,
         NoneString),
      Te("FUNCTION", Some(fo_dbo_g), Some(fo_dbo), Some(fo_dbo),
         Some(<<" ", "\n">> \o fo_dbo_g), Some(fo_dbo_g), NoneString),
      Te("PROCEDURE", Some(fo_dbo_g), Some(fo_g), Some(fo_g),
         Some(<<"\"">> \o fo_dbo \o <<"\"", ".", "g">>), Some(fo_dbo_g), NoneString),
      Te("DOMAIN", Some(<<"g">>), Some(fo_dbo), Some(fo_dbo), Some(fo_dbo_g),
         Some(fo_dbo_g), NoneString),
      Te("ACL", Some(SCHEMA_ \o fo_dbo), NoneString, Some(fo_dbo), Some(fo_dbo),
         NoneString, NoneString),
      Te("ACL", Some(fo_dbo_g), Some(fo_dbo), Some(fo_dbo), Some(fo_dbo_g),
         Some(fo_dbo_g), NoneString),
      Te("TABLE DATA", Some(fo_dbo_g), Some(fo_dbo), Some(fo_dbo), NoneString, NoneString,
         Some(fo_dbo_g)),
      Te("TABLE DATA", Some(babelfish_sysdatabases), Some(<<"g">>), Some(<<"o">>),
         NoneString, NoneString, Some(<< >>)),
      Te("ACL", Some(<< >>), Some(<< >>), Some(<< >>), Some(<< >>), Some(<< >>),
         NoneString),
      Te("FUNCTION", NoneString, NoneString, NoneString, Some(<< >>), NoneString,
         Some(<< >>)) }

TePool == SchemaPool \cup ObjectPool

RECURSIVE TeLists(_)
TeLists(n) ==
    IF n = 0 THEN {<< >>}
    ELSE TeLists(n - 1) \cup {Append(l, te) : l \in TeLists(n - 1), te \in TePool}

DbNames ==
    { <<"f", "o", "o">>, <<"_", "b", "a", "r">>, <<"a", "1", "_", "b">>,
      << >>, <<" ", "x">>, <<"1", "a", "b", "c">>, <<"A", "b", "c">>,
      <<"a", "b", "-", "c">>, <<"s", "e", "l", "e", "c", "t">> }

FileNames == {"toc.dat", "toc_rewritten.dat", "toc.dat.orig"}

InitRename ==
    /\ overflow_checks = TRUE
    /\ pc = "rewrite_toc"
    /\ toc_in \in TeLists(MaxRen)
    /\ toc = << >>
    /\ ctx = << >>
    /\ ret = "none"
    /\ \E count \in {Len(toc_in), Len(toc_in) + 1}, dbname \in DbNames :
          /\ job = [dbname |-> dbname, toc_count |-> count]
          /\ fs \in { [n \in FileNames |->
                         IF n = "toc.dat" THEN TocFile(count, toc_in) ELSE Absent],
                      [n \in FileNames |-> Absent] }
    /\ reader = NewReader(<< >>) /\ writer = NewWriter
    /\ IdlePrim /\ IdleToc /\ IdleSql

\* toc_src_path.canonicalize()? .. TocCtx::new(&dbname)
RewriteTocOpen ==
    /\ pc = "rewrite_toc"
    /\ IF fs["toc.dat"] = Absent
       THEN /\ ret' = "NotFound" /\ pc' = "failed"
            /\ UNCHANGED <<fs, ctx>>
       ELSE /\ fs' = toc_created(fs, fs["toc.dat"])
            /\ ctx' = TocCtx_new(job.dbname)
            /\ pc' = "entries"
            /\ UNCHANGED ret
    /\ UNCHANGED <<overflow_checks, reader, writer, toc_in, toc, job, primVars, tocVars,
                   sqlVars>>

EntryDone(st) ==
    /\ ctx' = st.ctx
    /\ IF st.err # ""
       THEN /\ ret' = st.err /\ pc' = "failed"
            /\ UNCHANGED <<fs, toc>>
       ELSE /\ fs' = toc_entry_written(fs, st.te)
            /\ toc' = Append(toc, st.te)
            /\ UNCHANGED <<ret, pc>>

\* one turn of the loop for _ in 0..toc_count
RewriteTocEntry ==
    /\ pc = "entries"
    /\ Len(toc) < fs["toc.dat"].count
    /\ EntryDone(modify_read(read_toc_entry(fs["toc.dat"], Len(toc) + 1, ctx)))
    /\ UNCHANGED <<overflow_checks, reader, writer, toc_in, job, primVars, tocVars, sqlVars>>

\* Ok(()) after the loop
RewriteTocDone ==
    /\ pc = "entries"
    /\ Len(toc) = fs["toc.dat"].count
    /\ ret' = "Ok"
    /\ pc' = "done"
    /\ UNCHANGED <<overflow_checks, reader, writer, ctx, toc_in, toc, fs, job, primVars,
                   tocVars, sqlVars>>

NextRename == RewriteTocOpen \/ RewriteTocEntry \/ RewriteTocDone

SpecRename == InitRename /\ [][NextRename]_vars

(***************************************************************************)
(* Claims about rewrite_toc (checked under SpecRename)                     *)
(***************************************************************************)
LowercaseAscii ==
    {"a", "b", "c", "d", "e", "f", "g", "h", "i", "j", "k", "l", "m", "n", "o", "p",
     "q", "r", "s", "t", "u", "v", "w", "x", "y", "z"}

ReservedWords == {<<"s", "e", "l", "e", "c", "t">>}

\* the name is non-empty, starts with a lowercase letter or "_" (so it has no
\* leading whitespace), is made of lowercase letters, digits and "_" (so it
\* has no trailing whitespace) and is not a reserved word
ValidDbName(name) ==
    /\ name # << >>
    /\ name[1] \in LowercaseAscii \cup {"_"}
    /\ \A i \in 1..Len(name) : name[i] \in LowercaseAscii \cup AsciiDigits \cup {"_"}
    /\ name \notin ReservedWords

Returned == pc \in {"done", "failed"}

\* C13: the destination database name is accepted if and only if it is valid;
\* an invalid one is rejected with the error `Invalid db name`.
C13_DbNameValidated ==
    Returned => (ValidDbName(job.dbname) <=> ret # "Invalid db name")

\* the toc.dat of the directory before the call
OriginalToc == TocFile(job.toc_count, toc_in)

\* C14: after rewrite_toc returns success, toc.dat.orig holds what toc.dat
\* held before the call, toc.dat holds the rewritten TOC and no
\* toc_rewritten.dat remains.
C14_TocRenamed ==
    pc = "done" =>
        /\ fs["toc.dat.orig"] = OriginalToc
        /\ fs["toc.dat"] = TocFile(job.toc_count, toc)
        /\ fs["toc_rewritten.dat"] = Absent

\* what rewrite_toc leaves after success: toc.dat as it was, the rewritten
\* TOC in toc_rewritten.dat, and no toc.dat.orig
C14_SideFileKept ==
    pc = "done" =>
        /\ fs["toc.dat.orig"] = Absent
        /\ fs["toc.dat"] = OriginalToc
        /\ fs["toc_rewritten.dat"] = TocFile(job.toc_count, toc)

\* rewrite_toc has made its TocCtx
CtxMade == pc \in {"entries", "done"} \/ (pc = "failed" /\ ret # "NotFound")

\* the index of the entry that the last turn of the loop worked on, 0 if none
LastTurn == IF pc = "failed" /\ CtxMade THEN Len(toc) + 1 ELSE Len(toc)

\* the entry is mutated by the last branch of the per-entry mutation
OtherEntry(te) ==
    /\ te.description # "SCHEMA"
    /\ ~(te.description = "ACL" /\ starts_with(binopt_to_string(te.tag), SCHEMA_))

\* the field as the SQL rewriter in Qualified mode returns it
QualifiedField(field) ==
    IF field.some THEN Some(rewrite_schema_in_sql(ctx.schemas, field.chars).sql)
    ELSE field

Substituted(map, field) ==
    IF contains_key(map, binopt_to_string(field))
    THEN Some(get(map, binopt_to_string(field)))
    ELSE field

\* C17: for every entry that is neither a SCHEMA entry nor an ACL entry whose
\* tag begins with `SCHEMA `, the mutation rewrites tag, create_stmt,
\* drop_stmt and copy_stmt in Qualified mode, replaces namespace by
\* schemas[namespace] and owner by owners[owner] when they are keys.
C17_OtherEntryMutated ==
    (pc = "entries" /\ Len(toc) > 0 /\ OtherEntry(toc_in[Len(toc)])) =>
        /\ toc[Len(toc)].tag = QualifiedField(toc_in[Len(toc)].tag)
        /\ toc[Len(toc)].create_stmt = QualifiedField(toc_in[Len(toc)].create_stmt)
        /\ toc[Len(toc)].drop_stmt = QualifiedField(toc_in[Len(toc)].drop_stmt)
        /\ toc[Len(toc)].copy_stmt = QualifiedField(toc_in[Len(toc)].copy_stmt)
        /\ toc[Len(toc)].namespace = Substituted(ctx.schemas, toc_in[Len(toc)].namespace)
        /\ toc[Len(toc)].owner = Substituted(ctx.owners, toc_in[Len(toc)].owner)

\* what the mutation does for such an entry with a description it knows (ACL,
\* DOMAIN, FUNCTION, TABLE, PROCEDURE): namespace and owner are substituted and
\* copy_stmt is left as it is; an entry with another description is not touched
C17_NamesOnly ==
    (pc = "entries" /\ Len(toc) > 0 /\ OtherEntry(toc_in[Len(toc)])
        /\ toc_in[Len(toc)].description # "TABLE DATA") =>
        /\ toc[Len(toc)].copy_stmt = toc_in[Len(toc)].copy_stmt
        /\ toc[Len(toc)].namespace = Substituted(ctx.schemas, toc_in[Len(toc)].namespace)
        /\ toc[Len(toc)].owner = Substituted(ctx.owners, toc_in[Len(toc)].owner)

\* the last turn of the loop worked on the first SCHEMA entry of the file
FirstSchemaTurn ==
    /\ CtxMade /\ LastTurn \in 1..Len(toc_in)
    /\ toc_in[LastTurn].description = "SCHEMA"
    /\ \A k \in 1..(LastTurn - 1) : toc_in[k].description # "SCHEMA"

WithoutDbo(tag) == SubSeq(tag, 1, Len(tag) - Len(dbo_suffix))

\* C18: on the first SCHEMA entry, a tag that does not end with `_dbo` makes
\* the rename fail and leaves the context unchanged; otherwise the original
\* dbname is the tag without `_dbo` and, whatever the owner of the entry, the
\* owners map contains <orig>_dbo -> <dest>_dbo.
C18_FirstSchemaSeeds ==
    FirstSchemaTurn =>
        IF ~ends_with(binopt_to_string(toc_in[LastTurn].tag), dbo_suffix)
        THEN pc = "failed" /\ ctx = TocCtx_new(job.dbname)
        ELSE /\ ctx.orig_dbname = WithoutDbo(binopt_to_string(toc_in[LastTurn].tag))
             /\ [orig |-> binopt_to_string(toc_in[LastTurn].tag),
                 dest |-> job.dbname \o dbo_suffix] \in ctx.owners

\* the part of C18 that holds: the failure on a tag without `_dbo`, and the
\* original dbname of a tag of one-byte chars
C18_FirstSchemaNamed ==
    FirstSchemaTurn =>
        IF ~ends_with(binopt_to_string(toc_in[LastTurn].tag), dbo_suffix)
        THEN pc = "failed" /\ ctx = TocCtx_new(job.dbname)
        ELSE str_len(binopt_to_string(toc_in[LastTurn].tag))
                    = Len(binopt_to_string(toc_in[LastTurn].tag))
                => ctx.orig_dbname = WithoutDbo(binopt_to_string(toc_in[LastTurn].tag))

\* every pair of the map replaces the prefix <orig>_ by <dest>_
PrefixPairs(map) ==
    \A e \in map :
        /\ starts_with(e.orig, ctx.orig_dbname \o <<"_">>)
        /\ e.dest = job.dbname \o <<"_">> \o chars_skip(e.orig, Len(ctx.orig_dbname) + 1)

\* every key of the maps comes from an entry that was mutated and written
KeysOfWritten ==
    /\ \A e \in ctx.schemas :
          \E k \in 1..Len(toc) :
              toc_in[k].description = "SCHEMA" /\ binopt_to_string(toc_in[k].tag) = e.orig
    /\ \A e \in ctx.owners :
          \E k \in 1..Len(toc) :
              toc_in[k].description = "SCHEMA" /\ binopt_to_string(toc_in[k].owner) = e.orig

\* the last turn of the loop worked on a SCHEMA entry whose tag does not
\* begin with <orig>_
ForeignSchemaTurn ==
    /\ CtxMade /\ LastTurn \in 1..Len(toc_in)
    /\ toc_in[LastTurn].description = "SCHEMA"
    /\ ~starts_with(binopt_to_string(toc_in[LastTurn].tag), ctx.orig_dbname \o <<"_">>)

\* C19: after any sequence of SCHEMA entries every pair (k, v) of schemas and
\* of owners has k starting with <orig>_ and v equal to <dest>_ followed by
\* the rest of k; a SCHEMA entry whose tag does not begin with <orig>_ makes
\* the rename fail and adds no pair.
C19_PrefixReplaced ==
    /\ CtxMade => PrefixPairs(ctx.schemas) /\ PrefixPairs(ctx.owners)
    /\ ForeignSchemaTurn => pc = "failed" /\ KeysOfWritten

\* no SCHEMA entry of the file has the tag `_dbo`, which gives an empty
\* original dbname
NoEmptyDbName ==
    \A k \in 1..Len(toc_in) :
        toc_in[k].description = "SCHEMA" => binopt_to_string(toc_in[k].tag) # dbo_suffix

\* the same for the files without such an entry
C19_NamedPrefixReplaced ==
    /\ CtxMade /\ NoEmptyDbName => PrefixPairs(ctx.schemas) /\ PrefixPairs(ctx.owners)
    /\ ForeignSchemaTurn => pc = "failed" /\ KeysOfWritten

(***************************************************************************)
(* Catalog files: rewrite_catalog_internal (rewrite_catalog.rs) and        *)
(* rewrite_table (lib.rs).  The content of a data file is its text after   *)
(* decompression, NoFile for a name that is not there.  A job is the call  *)
(* in progress: its arguments, the index k of the next line, the text      *)
(* handed to the writer so far and whether the flush of the writer failed  *)
(* when it was dropped (drop ignores the error).                           *)
(***************************************************************************)
NoFile == <<"NoFile">>

\* str::split(sep).collect()
RECURSIVE str_split(_, _, _, _)
str_split(txt, sep, i, piece) ==
    IF i > Len(txt) THEN <<piece>>
    ELSE IF txt[i] = sep THEN <<piece>> \o str_split(txt, sep, i + 1, << >>)
    ELSE str_split(txt, sep, i + 1, Append(piece, txt[i]))

\* parts.join(sep)
RECURSIVE join(_, _)
join(parts, sep) ==
    IF Len(parts) = 0 THEN << >>
    ELSE IF Len(parts) = 1 THEN parts[1]
    ELSE parts[1] \o <<sep>> \o join(Tail(parts), sep)

\* BufRead::lines(): the pieces between newlines, without a last empty one;
\* a line that ended with a newline loses a carriage return before it
drop_last_empty(pieces) ==
    IF pieces[Len(pieces)] = << >> THEN SubSeq(pieces, 1, Len(pieces) - 1) ELSE pieces

without_cr(pieces, k) ==
    IF k < Len(pieces) /\ pieces[k] # << >> /\ pieces[k][Len(pieces[k])] = "\r"
    THEN SubSeq(pieces[k], 1, Len(pieces[k]) - 1)
    ELSE pieces[k]

lines_of(pieces) == drop_last_empty([k \in 1..Len(pieces) |-> without_cr(pieces, k)])

lines(txt) == lines_of(str_split(txt, "\n", 1, << >>))

\* str::replace(from, to) from the i-th char on, from not empty
RECURSIVE str_replace(_, _, _, _)
str_replace(st, i, from, to) ==
    IF i > Len(st) THEN << >>
    ELSE IF i + Len(from) - 1 <= Len(st) /\ SubSeq(st, i, i + Len(from) - 1) = from
         THEN to \o str_replace(st, i + Len(from), from, to)
    ELSE <<st[i]>> \o str_replace(st, i + 1, from, to)

\* the closure fun of the caller: the scenario gives one that fails for every
\* list and one that replaces the first string when it is the schema fo_dbo
fun(f, parts) ==
    IF f = "fail" THEN [err |-> "transform error", v |-> << >>]
    ELSE [err |-> "",
          v |-> IF parts[1] = <<"f", "o", "_", "d", "b", "o">>
                THEN [parts EXCEPT ![1] = <<"g", "_", "d", "b", "o">>]
                ELSE parts]

joined(r) == IF r.err # "" THEN r ELSE [err |-> "", v |-> join(r.v, "\t")]

\* mutant: every line is given to fun
rewrite_line_all(f, line) == joined(fun(f, str_split(line, "\t", 1, << >>)))

\* the closure rewrite_line of rewrite_catalog_internal
rewrite_line(f, line) ==
    IF line = <<"\\", ".">> \/ line = << >> THEN [err |-> "", v |-> line]
    ELSE joined(fun(f, str_split(line, "\t", 1, << >>)))

\* rewrite_table: each part of the line from the k-th on
RECURSIVE parts_replaced(_, _, _, _)
parts_replaced(parts, k, orig_dbname, dbname) ==
    IF k > Len(parts) THEN << >>
    ELSE <<IF starts_with(parts[k], orig_dbname)
           THEN str_replace(parts[k], 1, orig_dbname, dbname)
           ELSE parts[k]>>
         \o parts_replaced(parts, k + 1, orig_dbname, dbname)

line_replaced(line, orig_dbname, dbname) ==
    [err |-> "",
     v |-> join(parts_replaced(str_split(line, "\t", 1, << >>), 1, orig_dbname, dbname),
                "\t")]

\* the three paths of a call: rewrite_table always appends .gz,
\* rewrite_catalog_internal when compression > 0
gz(j) == j.op = "rewrite_table" \/ j.compression > 0

src_path(j) == IF gz(j) THEN "5972.dat.gz" ELSE "5972.dat"

dest_path(j) == IF gz(j) THEN "5972.dat.rewritten.gz" ELSE "5972.dat.rewritten"

\* mutant: the original is not moved away before the side file takes its name
orig_path_same(j) == IF gz(j) THEN "5972.dat.gz" ELSE "5972.dat"

orig_path(j) == IF gz(j) THEN "5972.dat.orig.gz" ELSE "5972.dat.orig"

\* the writer is dropped: its buffer is flushed to the file, and an error of
\* the flush is ignored
dropped(files, j, flushed) ==
    IF flushed THEN [files EXCEPT ![dest_path(j)] = j.written] ELSE files

\* mutant: a file that exists at the new name is kept
rename_kept(files, from, to) ==
    IF files[to] # NoFile THEN [files EXCEPT ![from] = NoFile]
    ELSE [files EXCEPT ![to] = files[from], ![from] = NoFile]

\* fs::rename(from, to): a file at the new name is replaced
rename(files, from, to) == [files EXCEPT ![to] = files[from], ![from] = NoFile]

(***************************************************************************)
(* Scenario 6: one data file of at most MaxLines lines, stored plain or    *)
(* compressed, is rewritten by rewrite_catalog, rewrite_catalog_all_at_once*)
(* or rewrite_table, at most MaxRounds times in a row.  Every call to the  *)
(* file system can fail.  job holds the arguments of the call, the items   *)
(* handed to the writer so far (k, written), whether the flush of the      *)
(* writer failed (lost), what the file and its .orig peer held when the    *)
(* call began (original, peer), what the file held before the first call   *)
(* (pristine) and the number of the call (round).                          *)
(***************************************************************************)
MaxLines == 2
MaxRounds == 2

LinePool ==
    { fo_dbo \o <<"\t", "g", "\t", "o", "\t">> \o fo_dbo_g,
      <<"g", "\t">> \o fo_g \o <<"\t", "o", "\t", "g", " ">> \o fo_dbo_g,
      <<"\\", ".">>,
      <<"g", "\r">>,
      << >> }

RECURSIVE CatalogTexts(_)
CatalogTexts(n) ==
    IF n = 0 THEN {<< >>}
    ELSE CatalogTexts(n - 1)
            \cup {t \o l \o <<"\n">> : t \in CatalogTexts(n - 1), l \in LinePool}

CatalogNames ==
    {"toc.dat", "5972.dat", "5972.dat.rewritten", "5972.dat.orig",
     "5972.dat.gz", "5972.dat.rewritten.gz", "5972.dat.orig.gz"}

TocBytes == <<"P", "G", "D", "M", "P">>

Calls ==
    [op : {"rewrite_catalog", "rewrite_catalog_all_at_once"}, compression : {0, 9},
     fun : {"substitute", "fail"}]
        \cup [op : {"rewrite_table"}, compression : {9}, fun : {"substitute"}]

Job(call, original) ==
    [op |-> call.op, compression |-> call.compression, fun |-> call.fun,
     orig_dbname |-> <<"f", "o">>, dbname |-> <<"f", "o", "o">>,
     k |-> 1, written |-> << >>, lost |-> FALSE, original |-> original,
     peer |-> NoFile, pristine |-> original, round |-> 1]

InitCatalog ==
    /\ overflow_checks = TRUE
    /\ pc = "catalog"
    /\ ret = "none"
    /\ \E call \in Calls, txt \in CatalogTexts(MaxLines) \cup {<<"g">>},
          stored \in {"5972.dat", "5972.dat.gz"} :
          /\ fs = [n \in CatalogNames |->
                      IF n = "toc.dat" THEN TocBytes
                      ELSE IF n = stored THEN txt ELSE NoFile]
          /\ job = Job(call, fs[src_path(call)])
    /\ ctx = << >> /\ toc_in = << >> /\ toc = << >>
    /\ reader = NewReader(<< >>) /\ writer = NewWriter
    /\ IdlePrim /\ IdleToc /\ IdleSql

\* what the call reads and rewrites one by one: the lines, or the whole text
items(j, txt) == IF j.op = "rewrite_catalog_all_at_once" THEN <<txt>> ELSE lines(txt)

\* one item rewritten, as it is handed to the writer
written_item(j, r) ==
    IF r.err # "" \/ j.op = "rewrite_catalog_all_at_once" THEN r
    ELSE [err |-> "", v |-> r.v \o <<"\n">>]

first_of(r) == IF r.err # "" THEN r ELSE [err |-> "", v |-> r.v[1]]

rewrite_item(j, item) ==
    written_item(j,
        IF j.op = "rewrite_table" THEN line_replaced(item, j.orig_dbname, j.dbname)
        ELSE IF j.op = "rewrite_catalog_all_at_once" THEN first_of(fun(j.fun, <<item>>))
        ELSE rewrite_line(j.fun, item))

\* the call returns Err(err); the writer, if there is one, is dropped
Fails(err, has_writer) ==
    /\ ret' = err
    /\ pc' = "failed"
    /\ IF has_writer
       THEN \E flushed \in BOOLEAN :
               /\ fs' = dropped(fs, job, flushed)
               /\ job' = [job EXCEPT !.lost = ~flushed]
       ELSE UNCHANGED <<fs, job>>

\* File::open(&src_path)?, File::create(&dest_path)?
CatalogOpen ==
    /\ pc = "catalog"
    /\ \/ fs[src_path(job)] = NoFile /\ Fails("NotFound", FALSE)
       \/ fs[src_path(job)] # NoFile /\ Fails("create failed", FALSE)
       \/ /\ fs[src_path(job)] # NoFile
          /\ fs' = [fs EXCEPT ![dest_path(job)] = << >>]
          /\ pc' = "lines"
          /\ UNCHANGED <<ret, job>>
    /\ UNCHANGED <<overflow_checks, reader, writer, ctx, toc_in, toc, primVars, tocVars,
                   sqlVars>>

ItemDone(r) ==
    \/ r.err # "" /\ Fails(r.err, TRUE)
    \/ r.err = "" /\ Fails("write failed", TRUE)
    \/ /\ r.err = ""
       /\ job' = [job EXCEPT !.k = job.k + 1, !.written = job.written \o r.v]
       /\ UNCHANGED <<ret, pc, fs>>

\* one line is rewritten and written, or the whole text is
CatalogWrite ==
    /\ pc = "lines"
    /\ job.k <= Len(items(job, fs[src_path(job)]))
    /\ ItemDone(rewrite_item(job, items(job, fs[src_path(job)])[job.k]))
    /\ UNCHANGED <<overflow_checks, reader, writer, ctx, toc_in, toc, primVars, tocVars,
                   sqlVars>>

\* the end of the block: reader and writer are dropped
CatalogClose ==
    /\ pc = "lines"
    /\ job.k > Len(items(job, fs[src_path(job)]))
    /\ \E flushed \in BOOLEAN :
          /\ fs' = dropped(fs, job, flushed)
          /\ job' = [job EXCEPT !.lost = ~flushed]
    /\ pc' = "rename_src"
    /\ UNCHANGED <<overflow_checks, reader, writer, ctx, toc_in, toc, ret, primVars,
                   tocVars, sqlVars>>

\* fs::rename(&src_path, &orig_path)?
CatalogRenameSrc ==
    /\ pc = "rename_src"
    /\ \/ Fails("rename failed", FALSE)
       \/ /\ fs' = rename(fs, src_path(job), orig_path(job))
          /\ pc' = "rename_dest"
          /\ UNCHANGED <<ret, job>>
    /\ UNCHANGED <<overflow_checks, reader, writer, ctx, toc_in, toc, primVars, tocVars,
                   sqlVars>>

\* fs::rename(&dest_path, &src_path)?; Ok(())
CatalogRenameDest ==
    /\ pc = "rename_dest"
    /\ \/ Fails("rename failed", FALSE)
       \/ /\ fs' = rename(fs, dest_path(job), src_path(job))
          /\ ret' = "Ok"
          /\ pc' = "done"
          /\ UNCHANGED job
    /\ UNCHANGED <<overflow_checks, reader, writer, ctx, toc_in, toc, primVars, tocVars,
                   sqlVars>>

\* the same call is made once more on the directory as the last one left it
CatalogAgain ==
    /\ pc = "done"
    /\ job.round < MaxRounds
    /\ pc' = "catalog"
    /\ ret' = "none"
    /\ job' = [job EXCEPT !.k = 1, !.written = << >>, !.lost = FALSE,
                          !.original = fs[src_path(job)],
                          !.peer = fs[orig_path(job)],
                          !.round = job.round + 1]
    /\ UNCHANGED <<overflow_checks, reader, writer, ctx, toc_in, toc, fs, primVars,
                   tocVars, sqlVars>>

NextCatalog ==
    \/ CatalogOpen \/ CatalogWrite \/ CatalogClose \/ CatalogRenameSrc
    \/ CatalogRenameDest \/ CatalogAgain

SpecCatalog == InitCatalog /\ [][NextCatalog]_vars

(***************************************************************************)
(* Claims about the catalog files (checked under SpecCatalog)              *)
(***************************************************************************)
\* the call found its file
Opened == job.original # NoFile

\* every line (or the text) has been handed to the writer
AllWritten == job.k > Len(items(job, job.original))

\* the writer has been dropped after the last write
Closed == pc \in {"rename_src", "rename_dest", "done"} \/ (pc = "failed" /\ AllWritten)

C16_FailureReturned ==
    /\ job.lost => pc = "failed"
    /\ pc = "failed" =>
          /\ fs["toc.dat"] = TocBytes
          /\ ret \notin {"NotFound", "create failed"} => fs[dest_path(job)] # NoFile
          /\ ret = "transform error" =>
                fs[src_path(job)] = job.original /\ fs[orig_path(job)] = job.peer

\* the same for the failures that the call notices
C16_NoticedFailure ==
    pc = "failed" =>
        /\ fs["toc.dat"] = TocBytes
        /\ ret \notin {"NotFound", "create failed"} => fs[dest_path(job)] # NoFile
        /\ ret = "transform error" =>
              fs[src_path(job)] = job.original /\ fs[orig_path(job)] = job.peer

\* the schemas map of a rename of fo to foo
CatalogSchemas ==
    { [orig |-> fo_dbo, dest |-> <<"f", "o", "o", "_", "d", "b", "o">>],
      [orig |-> fo_g, dest |-> <<"f", "o", "o", "_", "g">>] }

\* the k-th field of the record as the claim wants it
FieldWanted(parts, k) ==
    IF k = 1 /\ contains_key(CatalogSchemas, parts[1]) THEN get(CatalogSchemas, parts[1])
    ELSE IF k = 4 THEN rewrite_schema_in_sql(CatalogSchemas, parts[4]).sql
    ELSE parts[k]

RecordWanted(line) ==
    join([k \in 1..Len(str_split(line, "\t", 1, << >>)) |->
             FieldWanted(str_split(line, "\t", 1, << >>), k)], "\t")

\* C20: when the babelfish_function_ext file is rewritten, in every record
\* field 0 becomes schemas[field 0] when it is a key, field 3 becomes what the
\* SQL rewriter returns for it in Qualified mode, and the other fields, the
\* number of fields and the number and order of the records are unchanged; the
\* result is the original with every occurrence of the old name replaced.
C20_FunctionExtFields ==
    (pc = "done" /\ job.op = "rewrite_table" /\ ~job.lost) =>
        /\ Len(lines(fs[src_path(job)])) = Len(lines(job.original))
        /\ \A k \in 1..Len(lines(job.original)) :
              lines(fs[src_path(job)])[k] = RecordWanted(lines(job.original)[k])
        /\ fs[src_path(job)] = str_replace(job.original, 1, job.orig_dbname, job.dbname)

\* what rewrite_table does: the records keep their number and order, and
\* exactly the fields that begin with the old name have it replaced
C20_PrefixedFields ==
    (pc = "done" /\ job.op = "rewrite_table" /\ ~job.lost) =>
        /\ Len(lines(fs[src_path(job)])) = Len(lines(job.original))
        /\ \A k \in 1..Len(lines(job.original)) :
              lines(fs[src_path(job)])[k]
                  = join([i \in 1..Len(str_split(lines(job.original)[k], "\t", 1, << >>)) |->
                            IF starts_with(str_split(lines(job.original)[k], "\t", 1, << >>)[i],
                                           job.orig_dbname)
                            THEN str_replace(str_split(lines(job.original)[k], "\t", 1, << >>)[i],
                                             1, job.orig_dbname, job.dbname)
                            ELSE str_split(lines(job.original)[k], "\t", 1, << >>)[i]], "\t")

(***************************************************************************)
(* Claims about the steps of the rename (checked under SpecRename)         *)
(***************************************************************************)
\* the tags of the five catalogs whose data files the rename rewrites
CatalogTagChars ==
    { babelfish_sysdatabases,
      <<"b", "a", "b", "e", "l", "f", "i", "s", "h", "_", "a", "u", "t",
        "h", "i", "d", "_", "u", "s", "e", "r", "_", "e", "x", "t">>,
      <<"b", "a", "b", "e", "l", "f", "i", "s", "h", "_", "e", "x", "t",
        "e", "n", "d", "e", "d", "_", "p", "r", "o", "p", "e", "r", "t",
        "i", "e", "s">>,
      <<"b", "a", "b", "e", "l", "f", "i", "s", "h", "_", "f", "u", "n",
        "c", "t", "i", "o", "n", "_", "e", "x", "t">>,
      <<"b", "a", "b", "e", "l", "f", "i", "s", "h", "_", "n", "a", "m",
        "e", "s", "p", "a", "c", "e", "_", "e", "x", "t">> }

\* a TABLE DATA entry of the catalog, with a file name
IsCatalogData(te, tag) ==
    /\ te.description = "TABLE DATA"
    /\ te.tag = Some(tag)
    /\ te.filename.some

\* the entry pass has recorded the file name
Recorded(filename) ==
    \E i \in 1..Len(ctx.catalog_files) : ctx.catalog_files[i] = binopt_to_string(filename)

\* C21: the rename succeeds only if the entry pass recorded a data file for
\* each of the five catalogs (otherwise it returns an error and toc.dat is
\* not replaced), and the file name of every TABLE DATA entry of one of the
\* five catalogs is recorded when the entry is processed.
C21_CatalogsRecorded ==
    CtxMade =>
        /\ pc = "done" =>
              \A tag \in CatalogTagChars :
                  \E k \in 1..Len(toc) :
                      IsCatalogData(toc[k], tag) /\ Recorded(toc[k].filename)
        /\ \A k \in 1..Len(toc) :
              (\E tag \in CatalogTagChars : IsCatalogData(toc[k], tag))
                  => Recorded(toc[k].filename)

\* C27: with an invalid destination name the rename returns `Invalid db name`
\* as its first step: toc.dat is not opened, and no file of the directory is
\* created, written or renamed.
C27_InvalidNameFirst ==
    (~ValidDbName(job.dbname) /\ pc # "rewrite_toc") =>
        /\ pc = "failed" /\ ret = "Invalid db name"
        /\ fs["toc.dat"] \in {Absent, OriginalToc}
        /\ fs["toc_rewritten.dat"] = Absent
        /\ fs["toc.dat.orig"] = Absent

\* the fields of an entry that the rename must leave alone
FrameFields ==
    {"dump_id", "had_dumper", "section", "table_oid", "catalog_oid", "description",
     "tablespace", "tableam", "table_with_oids", "deps", "filename"}

\* the string fields that the rename may rewrite
NameFields == {"tag", "namespace", "owner", "create_stmt", "drop_stmt", "copy_stmt"}

\* a string field is absent, empty or holds text
Presence(field) ==
    IF ~field.some THEN "absent" ELSE IF field.chars = << >> THEN "empty" ELSE "text"

\* C28: the per-entry mutation leaves dump_id, had_dumper, section, table_oid,
\* catalog_oid, description, tablespace, tableam, table_with_oids, deps and
\* filename of every entry as they were, keeps the number of entries and
\* toc_count, and keeps an absent string field absent and an empty one empty.
C28_FrameKept ==
    CtxMade =>
        /\ fs["toc_rewritten.dat"] = TocFile(job.toc_count, toc)
        /\ Len(toc) <= Len(toc_in)
        /\ pc = "done" => Len(toc) = job.toc_count
        /\ \A k \in 1..Len(toc) :
              /\ \A f \in FrameFields : toc[k][f] = toc_in[k][f]
              /\ \A f \in NameFields :
                    Presence(toc_in[k][f]) \in {"absent", "empty"}
                        => toc[k][f] = toc_in[k][f]

\* two entries were renamed, one of them with absent and with empty fields
C28_Witness ==
    /\ pc = "done" /\ Len(toc) = 2
    /\ toc[1] # toc_in[1]
    /\ toc_in[1].description = "SCHEMA"
    /\ toc_in[2].description = "ACL"
    /\ Presence(toc_in[2].tag) = "empty"
    /\ Presence(toc_in[2].copy_stmt) = "absent"
    /\ Presence(toc_in[2].create_stmt) = "empty"

\* a SCHEMA entry has been processed with success
SchemaSeen == \E k \in 1..Len(toc) : toc_in[k].description = "SCHEMA"

\* C29: once the first SCHEMA entry has set the original database name, no
\* later entry changes it or its prefix form, also when the first SCHEMA tag
\* is `_dbo`.
C29_OrigDbNameOnce ==
    [][(pc = "entries" /\ SchemaSeen) =>
          /\ ctx'.orig_dbname = ctx.orig_dbname
          /\ ctx'.orig_dbname_with_underscore = ctx.orig_dbname_with_underscore]_vars

\* the same when the first SCHEMA tag named a database
C29_NamedOrigDbNameOnce ==
    [][(pc = "entries" /\ SchemaSeen /\ ctx.orig_dbname # << >>) =>
          /\ ctx'.orig_dbname = ctx.orig_dbname
          /\ ctx'.orig_dbname_with_underscore = ctx.orig_dbname_with_underscore]_vars

(***************************************************************************)
(* Scenario 7: one TocEntry is built from its JSON form by                 *)
(* TocEntry::from_json, written with write_toc_entry, and read back with   *)
(* read_entry from the bytes written.  The deps of the JSON form are       *)
(* Option<String>, so an element may be null.                              *)
(***************************************************************************)
\* a JSON string is the sequence of its code points
JsonDepStrings == {NoneString, Some(<< >>), Some(<<97, 98>>)}

JsonDepLists == UNION {[1..n -> JsonDepStrings] : n \in 0..MaxDeps}

JsonEntries ==
    {[TocEntry_to_json(BaseEnt).v EXCEPT !.dump_id = id, !.deps = deps, !.filename = f] :
        id \in {41, -5}, deps \in JsonDepLists, f \in {NoneString, Some(<<165>>)}}

InitEntry ==
    /\ overflow_checks \in BOOLEAN
    /\ pc = "json_entry"
    /\ \E j \in JsonEntries : json = [ok |-> TRUE, err |-> "", entries |-> <<j>>]
    /\ file = << >> /\ header = NoHeader /\ entries = << >>
    /\ reader = NewReader(<< >>) /\ writer = NewWriter
    /\ IdlePrim /\ IdleSql /\ IdleRen /\ IdleFs

\* TocEntry::from_json(&json)
EntryFromJson ==
    /\ pc = "json_entry"
    /\ entries' = <<TocEntry_from_json(json.entries[1])>>
    /\ pc' = "entry"
    /\ UNCHANGED <<overflow_checks, reader, writer, file, header, json, primVars, sqlVars,
                   renVars, fsVars>>

\* writer.write_toc_entry(&te): file is what the writer emitted
WriteEntry ==
    /\ pc = "entry"
    /\ writer' = TocWriter_write_toc_entry(writer, entries[1])
    /\ file' = writer'.buf
    /\ pc' = IF Failed(writer') THEN "write_failed" ELSE "entry_written"
    /\ UNCHANGED <<overflow_checks, reader, header, entries, json, primVars, sqlVars,
                   renVars, fsVars>>

\* reader.read_entry() on the bytes written
ReadEntry ==
    /\ pc = "entry_written"
    /\ \E te \in {TocReader_read_entry(NewReader(file))} :
          /\ reader' = te.r
          /\ IF Failed(te.r)
             THEN pc' = "read_failed" /\ UNCHANGED entries
             ELSE pc' = "entry_read" /\ entries' = Append(entries, te.v)
    /\ UNCHANGED <<overflow_checks, writer, file, header, json, primVars, sqlVars,
                   renVars, fsVars>>

NextEntry == EntryFromJson \/ WriteEntry \/ ReadEntry

SpecEntry == InitEntry /\ [][NextEntry]_vars

(***************************************************************************)
(* Claims about one entry (checked under SpecEntry)                        *)
(***************************************************************************)
\* the bytes of the deps, of the absent string after them and of the filename
WireTail(te) ==
    write_deps(NewWriter, te.deps, 1).buf
        \o TocWriter_write_string(NewWriter, TocString_none).buf
        \o TocWriter_write_string(NewWriter, te.filename).buf

\* the bytes written end with the deps, one absent string and the filename
EndsWithTail(bytes, tail) ==
    /\ Len(bytes) >= Len(tail)
    /\ SubSeq(bytes, Len(bytes) - Len(tail) + 1, Len(bytes)) = tail

\* no dep of the entry is absent
DepsPresent(te) == \A k \in 1..Len(te.deps) : te.deps[k].some

\* C22: for every in-memory TocEntry, also one built by from_json with an
\* absent element among its deps, write_toc_entry emits the deps, one absent
\* string and the filename, and read_entry on the bytes written returns the
\* same deps and the same filename and consumes exactly those bytes.
C22_EntryRoundTrip ==
    /\ pc \in {"entry_written", "entry_read", "read_failed"}
          => EndsWithTail(file, WireTail(entries[1]))
    /\ pc # "read_failed"
    /\ pc = "entry_read" =>
          /\ entries[2].deps = entries[1].deps
          /\ entries[2].filename = entries[1].filename
          /\ reader.buf = << >>

\* the same for the entries whose deps are all present
C22_PresentDepsRoundTrip ==
    (Len(entries) >= 1 /\ DepsPresent(entries[1])) =>
        /\ pc \in {"entry_written", "entry_read", "read_failed"}
              => EndsWithTail(file, WireTail(entries[1]))
        /\ pc # "read_failed"
        /\ pc = "entry_read" => entries[2] = entries[1] /\ reader.buf = << >>

(***************************************************************************)
(* Claims about the replacement pass (checked under SpecSql)               *)
(***************************************************************************)
\* one of the rewriters ran and its tokenizer returned tokens
Tokenized ==
    pc \in {"qualified", "unqualified", "single_quoted"} /\ result.err # "Tokenizer error"

\* the k-th token is selected by the mode that was run
ModeMatch(k) ==
    IF pc = "qualified" THEN QualifiedMatch(k)
    ELSE IF pc = "unqualified" THEN UnqualifiedMatch(k)
    ELSE ExactMatch(k)

\* the char index that the rewriter computes for the k-th token
StartIdx(k) == location_to_idx(split(sql, 1, << >>), tokens[k])

\* the end of the span that the rewriter skips for the k-th token
EndIdx(k) == StartIdx(k) + Len(tokens[k].value)

\* the chars of the SQL string in the span of the k-th token
SpanText(k) ==
    SubSeq(sql, StartIdx(k) + 1, IF EndIdx(k) > Len(sql) THEN Len(sql) ELSE EndIdx(k))

\* C23: for every selected token the index computed is that of its first char
\* in the SQL string, one past the opening quote of a quoted identifier or a
\* single-quoted string; the chars there are compared with the value of the
\* token, and when they differ for a selected token the rewriter returns
\* `Replace error` and no string, so every replacement of a returned string
\* was made where the SQL string held the identifier.
C23_ReplaceChecked ==
    Tokenized =>
        /\ \A k \in 1..Len(tokens) :
              ModeMatch(k) => StartIdx(k) = tokens[k].from - 1 + Len(Quote(k))
        /\ result.ok => \A k \in 1..Len(tokens) : ModeMatch(k) => SpanText(k) = tokens[k].value
        /\ (\E k \in 1..Len(tokens) : ModeMatch(k) /\ SpanText(k) # tokens[k].value)
              => result = SqlErr("Replace error")
        /\ result.err = "Replace error"
              => \E k \in 1..Len(tokens) : ModeMatch(k) /\ SpanText(k) # tokens[k].value

\* a quoted identifier written with a doubled quote was selected on the second
\* line of the string and the rewrite was abandoned
C23_Witness ==
    /\ pc = "qualified" /\ result = SqlErr("Replace error")
    /\ \E k \in 1..Len(tokens) :
          /\ ModeMatch(k) /\ tokens[k].quoted /\ tokens[k].line = 2
          /\ SpanText(k) # tokens[k].value

\* the indices of the selected tokens from k on, in the order of the tokens
RECURSIVE SelectedFrom(_)
SelectedFrom(k) ==
    IF k > Len(tokens) THEN << >>
    ELSE IF ModeMatch(k) THEN <<k>> \o SelectedFrom(k + 1)
    ELSE SelectedFrom(k + 1)

\* the original chars from last on with the spans of the tokens ks replaced
RECURSIVE Composed(_, _)
Composed(ks, last) ==
    IF ks = << >> THEN SubSeq(sql, last + 1, Len(sql))
    ELSE SubSeq(sql, last + 1, StartIdx(Head(ks))) \o Dest(tokens[Head(ks)].value)
             \o Composed(Tail(ks), EndIdx(Head(ks)))

\* the chars that the replacements of the tokens ks add
RECURSIVE Growth(_)
Growth(ks) ==
    IF ks = << >> THEN 0
    ELSE Len(Dest(tokens[Head(ks)].value)) - Len(tokens[Head(ks)].value) + Growth(Tail(ks))

InOrder(ks) ==
    /\ ks # << >> => StartIdx(ks[1]) >= 0
    /\ \A n \in 2..Len(ks) : StartIdx(ks[n]) >= EndIdx(ks[n - 1])

\* C24: the span of each selected token starts at or after the end of the
\* span of the selected token before it, and a returned string is the
\* original chars before the first span, then for each span its destination
\* and the original chars up to the next span, then the original tail: one
\* substitution for each selected token.
C24_SpansInOrder ==
    Tokenized =>
        /\ InOrder(SelectedFrom(1))
        /\ result.ok =>
              /\ result.sql = Composed(SelectedFrom(1), 0)
              /\ Len(result.sql) = Len(sql) + Growth(SelectedFrom(1))

\* two tokens were replaced, one of them quoted, with text before, between
\* and after them
C24_Witness ==
    /\ pc = "unqualified" /\ result.ok
    /\ Len(SelectedFrom(1)) = 2
    /\ StartIdx(SelectedFrom(1)[1]) > 0
    /\ StartIdx(SelectedFrom(1)[2]) > EndIdx(SelectedFrom(1)[1])
    /\ tokens[SelectedFrom(1)[2]].quoted
    /\ Len(result.sql) # Len(sql)

(***************************************************************************)
(* Scenario 8: the reordering of Scenario 4 taken one step at a time: the  *)
(* positions are recorded, then each step looks at one tracked position    *)
(* and swaps when it must; a scan that made a swap is followed by another. *)
(* ctx is [pos, swapped, k, swaps]: the tracked positions, whether the     *)
(* scan under way has swapped, the tracked tag to look at next and the     *)
(* number of swaps made.                                                   *)
(***************************************************************************)
\* Scan all TABLE DATA entries and record the position of five tags
RecordPositions ==
    /\ pc = "toc"
    /\ \E pos \in {record_positions(toc, 1, [t \in TrackedTags |-> 0])} :
          IF pos[sysdatabases] = 0
          THEN /\ pc' = "failed"
               /\ ret' = "babelfish_sysdatabases not found"
               /\ UNCHANGED ctx
          ELSE /\ pc' = "scan"
               /\ ctx' = [pos |-> pos, swapped |-> FALSE, k |-> 1, swaps |-> 0]
               /\ UNCHANGED ret
    /\ UNCHANGED <<overflow_checks, reader, writer, toc_in, toc, primVars, tocVars,
                   sqlVars, fsVars>>

Swapped(st) ==
    /\ toc' = st.list
    /\ ctx' = [pos |-> st.pos, swapped |-> TRUE, k |-> ctx.k + 1, swaps |-> ctx.swaps + 1]

\* one tracked position is looked at
ScanStep ==
    /\ pc = "scan"
    /\ ctx.k <= Len(Tracked)
    /\ IF ctx.pos[Tracked[ctx.k]] # 0 /\ ctx.pos[Tracked[ctx.k]] < ctx.pos[sysdatabases]
       THEN Swapped(swap_tracked([list |-> toc, pos |-> ctx.pos, swapped |-> ctx.swapped],
                                 Tracked[ctx.k]))
       ELSE /\ ctx' = [ctx EXCEPT !.k = ctx.k + 1]
            /\ UNCHANGED toc
    /\ UNCHANGED <<overflow_checks, pc, reader, writer, toc_in, ret, primVars, tocVars,
                   sqlVars, fsVars>>

\* the end of a scan: another scan when this one swapped, else the end
ScanEnd ==
    /\ pc = "scan"
    /\ ctx.k > Len(Tracked)
    /\ IF ctx.swapped
       THEN /\ ctx' = [ctx EXCEPT !.k = 1, !.swapped = FALSE]
            /\ UNCHANGED <<pc, ret>>
       ELSE /\ pc' = "reordered"
            /\ ret' = ""
            /\ UNCHANGED ctx
    /\ UNCHANGED <<overflow_checks, reader, writer, toc_in, toc, primVars, tocVars,
                   sqlVars, fsVars>>

NextScan == RecordPositions \/ ScanStep \/ ScanEnd

\* the loop is run to its end
SpecScan == InitReorder /\ [][NextScan]_vars /\ WF_vars(NextScan)

(***************************************************************************)
(* Claims about the reordering loop (checked under SpecScan)               *)
(***************************************************************************)
FourCatalogs ==
    {"babelfish_extended_properties", "babelfish_function_ext",
     "babelfish_namespace_ext", "babelfish_view_def"}

\* the tracked positions are the places of the entries in the list, and no
\* tracked entry that is present is before babelfish_sysdatabases
ScanSettled ==
    /\ \A tag \in FourCatalogs \cup {sysdatabases} : ctx.pos[tag] = PositionOf(tag)
    /\ \A tag \in FourCatalogs :
          ctx.pos[tag] # 0 => ctx.pos[tag] > ctx.pos[sysdatabases]

\* C26: the reordering loop ends for every entry list and every placement of
\* the five tracked entries; each swap makes the tracked position of
\* babelfish_sysdatabases smaller, at most four swaps are made, and at the
\* end no tracked position other than 0 is smaller than the position of
\* babelfish_sysdatabases.
C26_ScanTerminates ==
    /\ <>(pc \in {"reordered", "failed"})
    /\ [](pc \in {"scan", "reordered"} => ctx.swaps <= 4)
    /\ [](pc = "reordered" => ScanSettled /\ toc = reorder_catalogs(toc_in).list)
    /\ [][(pc = "scan" /\ toc' # toc) =>
             /\ ctx'.swaps = ctx.swaps + 1
             /\ ctx'.pos[sysdatabases] < ctx.pos[sysdatabases]]_vars

\* four swaps were made and the loop has ended
C26_Witness ==
    /\ pc = "reordered"
    /\ ctx.swaps = 4
    /\ toc[1] = [desc |-> "TABLE DATA", tag |-> sysdatabases]
    /\ toc_in[5] = [desc |-> "TABLE DATA", tag |-> sysdatabases]

(***************************************************************************)
(* Claims about the lines of a catalog file and about repeated rewrites    *)
(* (checked under SpecCatalog)                                             *)
(***************************************************************************)
\* the line is the end-of-data marker or is empty
PassedThrough(line) == line = <<"\\", ".">> \/ line = << >>

\* the line as the claim wants it written: as it is, or split on tab, given
\* to the transform and joined with tab; then one LF
LineWanted(f, line) ==
    (IF PassedThrough(line) THEN line
     ELSE join(fun(f, str_split(line, "\t", 1, << >>)).v, "\t")) \o <<"\n">>

\* the first n lines as the claim wants them written
RECURSIVE LinesWanted(_, _, _)
LinesWanted(f, ls, n) ==
    IF n = 0 THEN << >> ELSE LinesWanted(f, ls, n - 1) \o LineWanted(f, ls[n])

\* what has been handed to the writer so far is right, and a failing
\* transform was met at the first line that is not passed through
LinesKept(ls) ==
    /\ job.k <= Len(ls) + 1
    /\ job.written = LinesWanted(job.fun, ls, job.k - 1)
    /\ ret = "transform error" => ~PassedThrough(ls[job.k])
    /\ job.fun = "fail" => \A n \in 1..(job.k - 1) : PassedThrough(ls[n])
    /\ job.k > Len(ls) =>
          /\ Len(lines(job.written)) = Len(ls)
          /\ \A n \in 1..Len(ls) : PassedThrough(ls[n]) => lines(job.written)[n] = ls[n]

\* C25: in per-record mode the transform is not invoked for a line that is
\* `\.` or empty, and the line is written as it is at its place; every other
\* line is split on tab, given to the transform, joined with tab and written
\* followed by one LF; the output has the lines of the input, in their order.
C25_LinesKept ==
    (job.op = "rewrite_catalog" /\ Opened /\ pc # "catalog") => LinesKept(lines(job.original))

\* a file of a record and the end-of-data marker was rewritten: the record
\* was changed by the transform, the marker was kept
C25_Witness ==
    /\ pc = "done" /\ job.op = "rewrite_catalog" /\ job.fun = "substitute" /\ ~job.lost
    /\ Len(lines(job.original)) = 2
    /\ lines(job.original)[2] = <<"\\", ".">>
    /\ lines(fs[src_path(job)])[2] = <<"\\", ".">>
    /\ lines(fs[src_path(job)])[1] # lines(job.original)[1]

\* C30: after the k-th successful rewrite of a file, <name>.orig holds what
\* <name> held just before that rewrite; a rewrite made when <name>.orig
\* exists replaces it, so <name>.orig is what the dump held at first only
\* after the first rewrite.
C30_OrigIsPrevious ==
    (pc = "done" /\ Opened) =>
        /\ fs[orig_path(job)] = job.original
        /\ job.round = 1 => job.original = job.pristine /\ job.peer = NoFile
        /\ job.round > 1 => job.peer # NoFile

\* the second rewrite of a file has replaced its .orig, which no longer holds
\* what the dump held at first
C30_Witness ==
    /\ pc = "done" /\ job.round = 2 /\ ~job.lost
    /\ job.peer = job.pristine
    /\ fs[orig_path(job)] # job.pristine
    /\ fs[orig_path(job)] = job.original
    /\ fs[src_path(job)] # job.original

=============================================================================
